---- MODULE Spec2Model ----
(***************************************************************************)
(* State-machine model of the STM32MP1 clock driver of optee_os            *)
(* (src/unnamed/part_000): gate controller (clk_stm32_enable/disable/      *)
(* is_enabled and the gate reference counters) and CPU operating-point     *)
(* switch (stm32mp1_set_opp_khz).                                          *)
(*                                                                         *)
(* Registers are modelled by their fields.  An enable register is the set  *)
(* of its bit positions that read as 1.  Every handler that can block or   *)
(* be interleaved is cut at the points where another core can run (lock    *)
(* acquisition, each access to shared data); pc[c] is the position of      *)
(* core c inside its handler.  panic() and a failed assert() halt the      *)
(* system: no action is enabled once panicked is TRUE.                     *)
(***************************************************************************)
EXTENDS Integers, Naturals, Sequences, FiniteSets, TLC

VARIABLES
    rcc_secure,      \* stm32_rcc_is_secure(): RCC_TZCR[TZEN], fixed by early init
    rcc_en,          \* clock enable registers: offset -> set of bits reading 1
    boot_en,         \* rcc_en as left by the boot loader (history, never written)
    gate_refcounts,  \* gate_refcounts[NB_GATES], indexed from 0
    refcount_lock,   \* 0 when free, else the core holding it
    calls,           \* history: per gate, locked enable() returns minus disable() returns
    pc,              \* per core: position inside its handler
    arg,             \* per core: gate index the handler works on
    tmp,             \* per core: register value read by io_setbits32
    panicked,        \* TRUE once panic() or a failed assert() halted the system
    ev,              \* what the last step did: handler, id, result, writes
    mpckselr,        \* RCC_MPCKSELR: CPU clock source field and SRCRDY
    mpckdivr,        \* RCC_MPCKDIVR: MPUDIV field and DIVRDY
    pll1cr,          \* RCC_PLL1CR: set of bits reading 1
    pll1cfgr1,       \* RCC_PLL1CFGR1, raw value
    pll1cfgr2,       \* RCC_PLL1CFGR2, raw value
    pll1fracr,       \* RCC_PLL1FRACR, raw value
    rck12selr,       \* RCC_RCK12SELR: reference clock source of PLL1
    pll1_settings,   \* struct stm32mp1_pll_settings, slots indexed from 0
    current_opp_khz, \* frequency recorded as the current operating point
    opp_pc,          \* position inside stm32mp1_set_opp_khz
    opp_try,         \* which call of pll1_config_from_opp_khz: apply, restore
    opp_req,         \* freq_khz of the stm32mp1_set_opp_khz call in progress
    opp_hist,        \* history of the call: stop path taken, a poll timed out
    opp_ev,          \* what the last step of the switch did
    rate_regs,       \* RCC mux, divider and prescaler fields read by get_rate
    rate_ev,         \* what the last clk_stm32_get_rate call returned
    backup_clock_sc_cfg, \* backup_clock_sc_cfg[].value, by register offset
    suspended,       \* TRUE between stm32_clock_suspend and stm32_clock_resume
    lp_data,         \* buffer handed to stm32mp1_clk_lp_save_opp_pll1_settings
    lp_ev,           \* last call on the settings record and what it returned
    pll1_search,     \* locals of clk_compute_pll1_settings and the slot it fills
    soc_stop_ctx,    \* struct soc_stop_context soc_stop_ctx
    stop_pc,         \* position between the save and the restore for stop
    stop_ev,         \* what the last step of the save or restore did
    rcc_ocenr,       \* RCC_OCENSETR/RCC_OCENCLRR: set of the bits reading 1
    lp_writes,       \* RCC registers written by the low power handler, in order
    rproc_ta_state,  \* enum rproc_load_state rproc_ta_state
    etzpc_decprot,   \* ETZPC DECPROT attribute of each MCU RAM bank
    mcu_ram,         \* per MCU RAM bank: "zero" when every byte of it is 0
    rproc_ev,        \* last remoteproc command, its result and what it wrote
    rcc_mp_gcr,      \* RCC_MP_GCR: set of the bits reading 1
    rcc_mp_cier,     \* RCC_MP_CIER: set of the bits reading 1
    rcc_mp_cifr,     \* RCC_MP_CIFR: set of the bits reading 1
    svc_ev,          \* last RCC register service request and what it returned
    deepest_suspend_mode,          \* static of power_config.c
    system_off_mode,               \* static of power_config.c
    stm32mp1_supported_soc_modes,  \* stm32mp1_supported_soc_modes[], from 0
    stm32mp1_pm_dom,               \* stm32mp1_pm_dom[], indexed from 0
    cfg_stm32_cryp,  \* IS_ENABLED(CFG_STM32_CRYP), fixed by the build
    pwr_ev           \* last call of the power configuration and its result

gateVars == << rcc_secure, rcc_en, boot_en, gate_refcounts, refcount_lock,
               calls, pc, arg, tmp, panicked, ev >>

oppRegs == << mpckselr, mpckdivr, pll1cr, pll1cfgr1, pll1cfgr2, pll1fracr,
              rck12selr >>

oppVars == << oppRegs, pll1_settings, current_opp_khz, opp_pc, opp_try,
              opp_req, opp_hist, opp_ev >>

rateVars == << rate_regs, rate_ev >>

rprocVars == << rproc_ta_state, etzpc_decprot, mcu_ram, rproc_ev >>

rccSvcVars == << rcc_mp_gcr, rcc_mp_cier, rcc_mp_cifr, svc_ev >>

pwrVars == << deepest_suspend_mode, system_off_mode,
              stm32mp1_supported_soc_modes, stm32mp1_pm_dom, cfg_stm32_cryp,
              pwr_ev >>

svcVars == << rprocVars, rccSvcVars, pwrVars >>

kerVars == << rcc_ocenr, lp_writes, svcVars >>

stopVars == << soc_stop_ctx, stop_pc, stop_ev, kerVars >>

pmVars == << backup_clock_sc_cfg, suspended, lp_data, lp_ev, pll1_search,
            stopVars >>

vars == << gateVars, oppVars, rateVars, pmVars >>

(***************************************************************************)
(* Bounds of the model                                                     *)
(***************************************************************************)
\* enable() is not called on a gate that MaxRefs enable() calls already hold
\* or are about to hold
MaxRefs == 2

(***************************************************************************)
(* Program constants                                                       *)
(***************************************************************************)
CFG_TEE_CORE_NB_CORE == 2

N_S == 0
SEC == 1

\* clock identifiers (dt-bindings/clock/stm32mp1-clks.h)
CK_HSE == 0
CK_CSI == 1
CK_LSI == 2
CK_LSE == 3
CK_HSI == 4
CK_HSE_DIV2 == 5
RNG1_K == 124
USART1_K == 148
RTC == 192
TIM2_K == 197
TIM14_K == 205
TIM1_K == 206
TIM17_K == 210
TIM15_K == 208
CK_PER == 193
SPI6_K == 135
PLL1_P == 180
PLL3_R == 188
PLL4_P == 189
CK_MPU == 194
CK_AXI == 195
CK_MCU == 196
TIM12_K == 203
CK_DBG == 214
DDRC1 == 220
DDRC2 == 222

Cores == 1..CFG_TEE_CORE_NB_CORE

\* The identifiers callers pass: always-on clocks, gated clocks, and
\* an identifier that is neither (PLL4_P).
ClockIds == { CK_HSE_DIV2, PLL3_R, CK_MPU,
              DDRC1, DDRC2, SPI6_K, TIM12_K, CK_DBG, PLL4_P }

(***************************************************************************)
(* Topology registry: gated clocks                                         *)
(***************************************************************************)
\* Entries of stm32mp1_clk_gate[] covering each shape of gate: secure
\* read-modify-write (two gates of one register), secure set/clear,
\* non-secure set/clear, non-secure read-modify-write.
stm32mp1_clk_gate ==
    << [offset |-> "RCC_DDRITFCR",      bit |-> 0, clock_id |-> DDRC1,
        set_clr |-> 0, secure |-> SEC],
       [offset |-> "RCC_DDRITFCR",      bit |-> 2, clock_id |-> DDRC2,
        set_clr |-> 0, secure |-> SEC],
       [offset |-> "RCC_MP_APB5ENSETR", bit |-> 0, clock_id |-> SPI6_K,
        set_clr |-> 1, secure |-> SEC],
       [offset |-> "RCC_MP_APB1ENSETR", bit |-> 6, clock_id |-> TIM12_K,
        set_clr |-> 1, secure |-> N_S],
       [offset |-> "RCC_DBGCFGR",       bit |-> 8, clock_id |-> CK_DBG,
        set_clr |-> 0, secure |-> N_S] >>

NB_GATES == Len(stm32mp1_clk_gate)

GateIdx == 0..(NB_GATES - 1)

gate_ref(idx) == stm32mp1_clk_gate[idx + 1]

EnableRegs == { stm32mp1_clk_gate[k].offset : k \in 1..NB_GATES }

gate_is_non_secure_nsclass(gate) ==
    gate.secure = N_S

gate_is_non_secure(gate) ==
    gate.secure = N_S \/ ~rcc_secure

stm32mp1_clk_get_gated_id_first(id) ==
    0

\* index of the gate whose clock_id is id, -1 when there is none
stm32mp1_clk_get_gated_id(id) ==
    IF \E i \in GateIdx : gate_ref(i).clock_id = id
    THEN CHOOSE i \in GateIdx :
            /\ gate_ref(i).clock_id = id
            /\ \A j \in GateIdx : gate_ref(j).clock_id = id => i <= j
    ELSE -1

clock_is_always_on_strict(id) ==
    \/ id < CK_HSE_DIV2
    \/ (id >= PLL1_P /\ id <= PLL3_R)
    \/ id \in { CK_AXI, CK_MPU, CK_MCU }

clock_is_always_on(id) ==
    \/ id <= CK_HSE_DIV2
    \/ (id >= PLL1_P /\ id <= PLL3_R)
    \/ id \in { CK_AXI, CK_MPU, CK_MCU }

(***************************************************************************)
(* Register accesses of the gate controller.  A write is recorded as       *)
(* [reg, clr, rmw, val]: the enable register, whether the access goes to   *)
(* its CLEAR sub-register (reg + RCC_MP_ENCLRR_OFFSET), whether it is the  *)
(* store of a read-modify-write, and the value written.                    *)
(***************************************************************************)
\* the hardware's reaction to a write
HwApply(regs, w) ==
    IF w.rmw THEN [regs EXCEPT ![w.reg] = w.val]
    ELSE IF w.clr THEN [regs EXCEPT ![w.reg] = @ \ w.val]
    ELSE [regs EXCEPT ![w.reg] = @ \cup w.val]

clk_enable_write_clr(gate, read) ==
    IF gate.set_clr = 1
    THEN [reg |-> gate.offset, clr |-> TRUE, rmw |-> FALSE, val |-> {gate.bit}]
    ELSE [reg |-> gate.offset, clr |-> FALSE, rmw |-> TRUE,
          val |-> read \ {gate.bit}]

\* __clk_enable: the write it issues; read is the value io_setbits32 read
\* from the gate's register
clk_enable_write(gate, read) ==
    IF gate.set_clr = 1
    THEN [reg |-> gate.offset, clr |-> FALSE, rmw |-> FALSE, val |-> {gate.bit}]
    ELSE [reg |-> gate.offset, clr |-> FALSE, rmw |-> TRUE,
          val |-> read \cup {gate.bit}]

clk_disable_write_set(gate, read) ==
    IF gate.set_clr = 1
    THEN [reg |-> gate.offset, clr |-> FALSE, rmw |-> FALSE, val |-> {gate.bit}]
    ELSE [reg |-> gate.offset, clr |-> FALSE, rmw |-> TRUE,
          val |-> read \ {gate.bit}]

\* __clk_disable: the write it issues
clk_disable_write(gate, read) ==
    IF gate.set_clr = 1
    THEN [reg |-> gate.offset, clr |-> TRUE, rmw |-> FALSE, val |-> {gate.bit}]
    ELSE [reg |-> gate.offset, clr |-> FALSE, rmw |-> TRUE,
          val |-> read \ {gate.bit}]

\* __clk_is_enabled
clk_is_enabled_gate(gate, regs) ==
    gate.bit \in regs[gate.offset]

\* clk_stm32_is_enabled: the value it returns, "false" also for an
\* identifier that has no gate
is_enabled_result(id, regs) ==
    IF clock_is_always_on(id) THEN TRUE
    ELSE IF stm32mp1_clk_get_gated_id(id) < 0 THEN FALSE
    ELSE clk_is_enabled_gate(gate_ref(stm32mp1_clk_get_gated_id(id)), regs)

spin_lock_acquirable_nolock(lock) ==
    TRUE

\* may_spin_lock() returns once the lock has been taken
spin_lock_acquirable(lock) ==
    lock = 0

refcount_assert_ndebug(n) ==
    TRUE

\* assert(gate_refcounts[i])
refcount_assert(n) ==
    n # 0

\* gate_refcounts[i]++ and gate_refcounts[i]-- on an unsigned int.  A counter
\* is held as the two's-complement representative of its 32-bit value
\* (-1 stands for UINT_MAX): 0 - 1 wraps to -1, and !counter tests 0.
refcount_inc(n) ==
    n + 1

refcount_dec(n) ==
    n - 1

(***************************************************************************)
(* Step labels                                                             *)
(***************************************************************************)
NoWrites == << >>

Label(op, id, ret, writes) ==
    [op |-> op, id |-> id, ret |-> ret, writes |-> writes]

(***************************************************************************)
(* clk_stm32_is_enabled                                                    *)
(***************************************************************************)
clk_stm32_is_enabled(c, id) ==
    /\ ~panicked
    /\ UNCHANGED << oppVars, rateVars, pmVars >>
    /\ pc[c] = "idle"
    /\ ev' = Label("is_enabled", id,
                   IF is_enabled_result(id, rcc_en) THEN "true" ELSE "false",
                   NoWrites)
    /\ UNCHANGED << rcc_secure, rcc_en, boot_en, gate_refcounts, refcount_lock,
                    calls, pc, arg, tmp, panicked >>

(***************************************************************************)
(* clk_stm32_enable                                                        *)
(***************************************************************************)
\* cores inside enable() on gate i that have not yet incremented its counter
EnablesInFlight(i) ==
    { d \in Cores : pc[d] \in { "en_lock", "en_test", "en_inc" } /\ arg[d] = i }

\* from the call up to the return, the panic, the store of an unlocked
\* read-modify-write, or the lock
clk_stm32_enable(c, id) ==
    /\ ~panicked
    /\ UNCHANGED << oppVars, rateVars, pmVars >>
    /\ pc[c] = "idle"
    /\ LET i == stm32mp1_clk_get_gated_id(id) IN
       IF clock_is_always_on(id)
       THEN /\ ev' = Label("enable", id, "TEE_SUCCESS", NoWrites)
            /\ UNCHANGED << rcc_en, gate_refcounts, calls, pc, arg, tmp,
                            panicked >>
       ELSE IF i < 0
       THEN /\ panicked' = TRUE
            /\ ev' = Label("enable", id, "panic", NoWrites)
            /\ UNCHANGED << rcc_en, gate_refcounts, calls, pc, arg, tmp >>
       ELSE IF gate_is_non_secure(gate_ref(i))
       THEN IF gate_ref(i).set_clr = 1
            THEN LET w == clk_enable_write(gate_ref(i), rcc_en[gate_ref(i).offset]) IN
                 /\ rcc_en' = HwApply(rcc_en, w)
                 /\ ev' = Label("enable", id, "TEE_SUCCESS", << w >>)
                 /\ UNCHANGED << gate_refcounts, calls, pc, arg, tmp,
                                 panicked >>
            ELSE /\ tmp' = [tmp EXCEPT ![c] = rcc_en[gate_ref(i).offset]]
                 /\ arg' = [arg EXCEPT ![c] = i]
                 /\ pc' = [pc EXCEPT ![c] = "en_ns_store"]
                 /\ ev' = Label("enable", id, "pending", NoWrites)
                 /\ UNCHANGED << rcc_en, gate_refcounts, calls, panicked >>
       ELSE /\ gate_refcounts[i] + Cardinality(EnablesInFlight(i)) < MaxRefs
            /\ arg' = [arg EXCEPT ![c] = i]
            /\ pc' = [pc EXCEPT ![c] = "en_lock"]
            /\ ev' = Label("enable", id, "pending", NoWrites)
            /\ UNCHANGED << rcc_en, gate_refcounts, calls, tmp, panicked >>
    /\ UNCHANGED << rcc_secure, boot_en, refcount_lock >>

\* io_setbits32 of the unlocked path: store of the value read, then return
enable_ns_store(c) ==
    /\ ~panicked
    /\ UNCHANGED << oppVars, rateVars, pmVars >>
    /\ pc[c] = "en_ns_store"
    /\ LET gate == gate_ref(arg[c])
           w == clk_enable_write(gate, tmp[c]) IN
       /\ rcc_en' = HwApply(rcc_en, w)
       /\ ev' = Label("enable", gate.clock_id, "TEE_SUCCESS", << w >>)
    /\ pc' = [pc EXCEPT ![c] = "idle"]
    /\ tmp' = [tmp EXCEPT ![c] = {}]
    /\ arg' = [arg EXCEPT ![c] = 0]
    /\ UNCHANGED << rcc_secure, boot_en, gate_refcounts, refcount_lock, calls,
                    panicked >>

\* exceptions = may_spin_lock(&refcount_lock)
enable_lock(c) ==
    /\ ~panicked
    /\ UNCHANGED << oppVars, rateVars, pmVars >>
    /\ pc[c] = "en_lock"
    /\ spin_lock_acquirable(refcount_lock)
    /\ refcount_lock' = c
    /\ pc' = [pc EXCEPT ![c] = "en_test"]
    /\ ev' = Label("enable", gate_ref(arg[c]).clock_id, "pending", NoWrites)
    /\ UNCHANGED << rcc_secure, rcc_en, boot_en, gate_refcounts, calls, arg,
                    tmp, panicked >>

\* if (!gate_refcounts[i]) __clk_enable(gate_ref(i));
enable_test(c) ==
    /\ ~panicked
    /\ UNCHANGED << oppVars, rateVars, pmVars >>
    /\ pc[c] = "en_test"
    /\ LET gate == gate_ref(arg[c])
           w == clk_enable_write(gate, rcc_en[gate.offset]) IN
       IF gate_refcounts[arg[c]] = 0
       THEN /\ rcc_en' = HwApply(rcc_en, w)
            /\ ev' = Label("enable", gate.clock_id, "pending", << w >>)
       ELSE /\ ev' = Label("enable", gate.clock_id, "pending", NoWrites)
            /\ UNCHANGED rcc_en
    /\ pc' = [pc EXCEPT ![c] = "en_inc"]
    /\ UNCHANGED << rcc_secure, boot_en, gate_refcounts, refcount_lock, calls,
                    arg, tmp, panicked >>

\* gate_refcounts[i]++;
enable_inc(c) ==
    /\ ~panicked
    /\ UNCHANGED << oppVars, rateVars, pmVars >>
    /\ pc[c] = "en_inc"
    /\ gate_refcounts' =
           [gate_refcounts EXCEPT ![arg[c]] = refcount_inc(@)]
    /\ pc' = [pc EXCEPT ![c] = "en_unlock"]
    /\ ev' = Label("enable", gate_ref(arg[c]).clock_id, "pending", NoWrites)
    /\ UNCHANGED << rcc_secure, rcc_en, boot_en, refcount_lock, calls, arg,
                    tmp, panicked >>

\* may_spin_unlock(&refcount_lock, exceptions); return TEE_SUCCESS;
enable_unlock(c) ==
    /\ ~panicked
    /\ UNCHANGED << oppVars, rateVars, pmVars >>
    /\ pc[c] = "en_unlock"
    /\ refcount_lock' = 0
    /\ calls' = [calls EXCEPT ![arg[c]] = @ + 1]
    /\ pc' = [pc EXCEPT ![c] = "idle"]
    /\ ev' = Label("enable", gate_ref(arg[c]).clock_id, "TEE_SUCCESS",
                   NoWrites)
    /\ arg' = [arg EXCEPT ![c] = 0]
    /\ UNCHANGED << rcc_secure, rcc_en, boot_en, gate_refcounts, tmp,
                    panicked >>

(***************************************************************************)
(* clk_stm32_disable                                                       *)
(***************************************************************************)
\* from the call up to the return, the panic, or the lock
clk_stm32_disable(c, id) ==
    /\ ~panicked
    /\ UNCHANGED << oppVars, rateVars, pmVars >>
    /\ pc[c] = "idle"
    /\ LET i == stm32mp1_clk_get_gated_id(id) IN
       IF clock_is_always_on(id)
       THEN /\ ev' = Label("disable", id, "void", NoWrites)
            /\ UNCHANGED << calls, pc, arg, panicked >>
       ELSE IF i < 0
       THEN /\ panicked' = TRUE
            /\ ev' = Label("disable", id, "panic", NoWrites)
            /\ UNCHANGED << calls, pc, arg >>
       ELSE IF gate_is_non_secure(gate_ref(i))
       THEN /\ ev' = Label("disable", id, "void", NoWrites)
            /\ UNCHANGED << calls, pc, arg, panicked >>
       ELSE /\ arg' = [arg EXCEPT ![c] = i]
            /\ pc' = [pc EXCEPT ![c] = "dis_lock"]
            /\ ev' = Label("disable", id, "pending", NoWrites)
            /\ UNCHANGED << calls, panicked >>
    /\ UNCHANGED << rcc_secure, rcc_en, boot_en, gate_refcounts,
                    refcount_lock, tmp >>

\* exceptions = may_spin_lock(&refcount_lock)
disable_lock(c) ==
    /\ ~panicked
    /\ UNCHANGED << oppVars, rateVars, pmVars >>
    /\ pc[c] = "dis_lock"
    /\ spin_lock_acquirable(refcount_lock)
    /\ refcount_lock' = c
    /\ pc' = [pc EXCEPT ![c] = "dis_assert"]
    /\ ev' = Label("disable", gate_ref(arg[c]).clock_id, "pending", NoWrites)
    /\ UNCHANGED << rcc_secure, rcc_en, boot_en, gate_refcounts, calls, arg,
                    tmp, panicked >>

\* assert(gate_refcounts[i]); gate_refcounts[i]--;
disable_dec(c) ==
    /\ ~panicked
    /\ UNCHANGED << oppVars, rateVars, pmVars >>
    /\ pc[c] = "dis_assert"
    /\ IF refcount_assert(gate_refcounts[arg[c]])
       THEN /\ gate_refcounts' =
                   [gate_refcounts EXCEPT ![arg[c]] = refcount_dec(@)]
            /\ pc' = [pc EXCEPT ![c] = "dis_test"]
            /\ ev' = Label("disable", gate_ref(arg[c]).clock_id, "pending",
                           NoWrites)
            /\ UNCHANGED panicked
       ELSE /\ panicked' = TRUE
            /\ ev' = Label("disable", gate_ref(arg[c]).clock_id, "assert",
                           NoWrites)
            /\ UNCHANGED << gate_refcounts, pc >>
    /\ UNCHANGED << rcc_secure, rcc_en, boot_en, refcount_lock, calls, arg,
                    tmp >>

\* if (!gate_refcounts[i]) __clk_disable(gate_ref(i));
disable_test(c) ==
    /\ ~panicked
    /\ UNCHANGED << oppVars, rateVars, pmVars >>
    /\ pc[c] = "dis_test"
    /\ LET gate == gate_ref(arg[c])
           w == clk_disable_write(gate, rcc_en[gate.offset]) IN
       IF gate_refcounts[arg[c]] = 0
       THEN /\ rcc_en' = HwApply(rcc_en, w)
            /\ ev' = Label("disable", gate.clock_id, "pending", << w >>)
       ELSE /\ ev' = Label("disable", gate.clock_id, "pending", NoWrites)
            /\ UNCHANGED rcc_en
    /\ pc' = [pc EXCEPT ![c] = "dis_unlock"]
    /\ UNCHANGED << rcc_secure, boot_en, gate_refcounts, refcount_lock, calls,
                    arg, tmp, panicked >>

\* may_spin_unlock(&refcount_lock, exceptions); return;
disable_unlock(c) ==
    /\ ~panicked
    /\ UNCHANGED << oppVars, rateVars, pmVars >>
    /\ pc[c] = "dis_unlock"
    /\ refcount_lock' = 0
    /\ calls' = [calls EXCEPT ![arg[c]] = @ - 1]
    /\ pc' = [pc EXCEPT ![c] = "idle"]
    /\ ev' = Label("disable", gate_ref(arg[c]).clock_id, "void", NoWrites)
    /\ arg' = [arg EXCEPT ![c] = 0]
    /\ UNCHANGED << rcc_secure, rcc_en, boot_en, gate_refcounts, tmp,
                    panicked >>

(***************************************************************************)
(* CPU operating points: program constants                                 *)
(***************************************************************************)
PLAT_MAX_OPP_NB == 2

PLL1_SETTINGS_VALID_ID == 1347177521    \* 0x504C4C31, "PLL1"

POST_DIVM_MIN == 8000000
POST_DIVM_MAX == 16000000
DIVM_MIN == 0
DIVM_MAX == 63
DIVN_MIN == 24
DIVN_MAX == 99
DIVP_MIN == 0
DIVP_MAX == 127
FRAC_MAX == 8192
VCO_MIN == 800000000
VCO_MAX == 1600000000

\* enum stm32mp_osc_id: _HSI, _HSE, _UNKNOWN_OSC_ID
osc_HSI == 0
osc_HSE == 1
osc_CSI == 2
osc_LSI == 3
osc_LSE == 4
osc_I2S_CKIN == 5
UNKNOWN_OSC_ID == 255

\* stm32mp1_pll[PLL_1600], the type of PLL1
PLL_1600_refclk_min == 8
PLL_1600_refclk_max == 16

\* register fields (stm32mp1_rcc.h)
RCC_SELR_REFCLK_SRC_MASK == 3
RCC_SELR_SRC_MASK == 7
RCC_DIVR_DIV_MASK == 15
RCC_MPUDIV_MASK == 7
RCC_MPCKSELR_HSI == 0
RCC_MPCKSELR_HSE == 1
RCC_MPCKSELR_PLL == 2
RCC_MPCKSELR_PLL_MPUDIV == 3
RCC_PLLNCFGR1_DIVN_MASK == 511
RCC_PLLNCFGR1_DIVM_SHIFT == 16
RCC_PLLNCFGR1_DIVM_WIDTH == 6
RCC_PLLNCFGR2_DIVX_MASK == 127
RCC_PLLNCFGR2_DIVQ_SHIFT == 8
RCC_PLLNCFGR2_DIVR_SHIFT == 16
RCC_PLLNFRACR_FRACV_SHIFT == 3
RCC_PLLNFRACR_FRACV_WIDTH == 13
RCC_PLLNFRACR_FRACLE == 65536
RCC_PLLNCR_DIVEN_SHIFT == 4

\* clock source selectors: register offset << 4 | source field
CLK_MPU_HSI == 512          \* 0x200
CLK_MPU_PLL1P == 514        \* 0x202
CLK_MPU_PLL1P_DIV == 515    \* 0x203
CLK_PLL12_HSI == 640        \* 0x280
CLK_PLL12_HSE == 641        \* 0x281

\* stm32mp1_mpu_div[]: MPUDIV field -> right shift of the PLL1 P rate
stm32mp1_mpu_div == << 0, 1, 2, 3, 4, 4, 4, 4 >>

\* stm32mp1_osc[]: oscillator rates in Hz as read from the device tree
stm32mp1_osc ==
    [o \in { osc_HSI, osc_HSE, osc_CSI, osc_LSI, osc_LSE } |->
        CASE o = osc_HSI -> 64000000
          [] o = osc_HSE -> 24000000
          [] o = osc_CSI -> 4000000
          [] o = osc_LSI -> 32000
          [] o = osc_LSE -> 32768]

\* bits of RCC_PLL1CR
PllOutputBits == { "DIVPEN", "DIVQEN", "DIVREN" }

(***************************************************************************)
(* Arithmetic.  The code computes the PLL rates in 64 bits; the operators  *)
(* below give the same quotients without an intermediate product.          *)
(***************************************************************************)
\* one step of the expansion: from h = << q, r >> for b \div 2 to b
MulQRStep(h, a, b, c) ==
    LET q2 == 2 * h[1] + ((2 * h[2]) \div c)
        r2 == (2 * h[2]) % c
    IN  IF b % 2 = 0
        THEN << q2, r2 >>
        ELSE << q2 + (a \div c) + ((r2 + (a % c)) \div c),
                (r2 + (a % c)) % c >>

\* << q, r >> with a * b = q * c + r and 0 <= r < c, by binary expansion of b
RECURSIVE MulQR(_, _, _)
MulQR(a, b, c) ==
    IF b = 0
    THEN << 0, 0 >>
    ELSE CHOOSE qr \in { MulQRStep(h, a, b, c) :
                             h \in { MulQR(a, b \div 2, c) } } : TRUE

\* (a * b) / c
MulDiv(a, b, c) ==
    MulQR(a, b, c)[1]

UDIV_ROUND_NEAREST(x, y) ==
    (x + (y \div 2)) \div y

\* (value >> shift) & (2^width - 1)
Field(value, shift, width) ==
    (value \div (2 ^ shift)) % (2 ^ width)

\* __builtin_ffs(div) - 1 for a power of two
ffs_minus_1(div) ==
    CHOOSE k \in 0..4 : 2 ^ k = div

(***************************************************************************)
(* Rate resolver: CPU clock (CK_MPU) from the PLL1 and mux registers       *)
(***************************************************************************)
osc_frequency(idx) ==
    IF idx \in DOMAIN stm32mp1_osc THEN stm32mp1_osc[idx] ELSE 0

\* refclk[] of _PLL1: _HSI, _HSE, _UNKNOWN_OSC_ID, _UNKNOWN_OSC_ID
stm32mp1_pll_get_fref(selr) ==
    LET src == selr % (RCC_SELR_REFCLK_SRC_MASK + 1) IN
    osc_frequency(IF src \in { osc_HSI, osc_HSE } THEN src ELSE UNKNOWN_OSC_ID)

\* An unsigned long (32 bits on this platform) is held as the pair
\* << v \div 2^16, v % 2^16 >> where its value may exceed 2^31 - 1.
HalfWord == 2 ^ 16

WordsValue(w) ==
    (w[1] * HalfWord) + w[2]

\* the value stm32mp1_pll_get_fvco returns.  With FRACLE the product is an
\* unsigned long long and the quotient is cast to unsigned long; without,
\* 'refclk * (divn + 1U)' is an unsigned long product, kept modulo 2^32,
\* which is then divided.
pll_get_fvco_words(refclk, divm, divn, fracle, fracv) ==
    IF fracle
    THEN LET qr == MulQR(refclk, ((divn + 1) * (2 ^ 13)) + fracv,
                         (2 ^ 13) * HalfWord)
             hi == qr[1]
             lo == qr[2] \div (2 ^ 13)
             den == divm + 1
         IN  << (hi \div den) % HalfWord,
                (((hi % den) * HalfWord) + lo) \div den >>
    ELSE LET qr == MulQR(refclk, divn + 1, HalfWord)
             hi == qr[1] % HalfWord
             lo == qr[2]
             den == divm + 1
         IN  << hi \div den, (((hi % den) * HalfWord) + lo) \div den >>

stm32mp1_pll_get_fvco(selr, cfgr1, fracr) ==
    LET divm == Field(cfgr1, RCC_PLLNCFGR1_DIVM_SHIFT, RCC_PLLNCFGR1_DIVM_WIDTH)
        divn == cfgr1 % (RCC_PLLNCFGR1_DIVN_MASK + 1)
        refclk == stm32mp1_pll_get_fref(selr)
        fracv == Field(fracr, RCC_PLLNFRACR_FRACV_SHIFT, RCC_PLLNFRACR_FRACV_WIDTH)
    IN  WordsValue(pll_get_fvco_words(refclk, divm, divn,
                       (fracr \div RCC_PLLNFRACR_FRACLE) % 2 = 1, fracv))

\* stm32mp1_read_pll_freq(_PLL1, _DIV_P)
stm32mp1_read_pll_freq(selr, cfgr1, cfgr2, fracr) ==
    LET divy == cfgr2 % (RCC_PLLNCFGR2_DIVX_MASK + 1) IN
    stm32mp1_pll_get_fvco(selr, cfgr1, fracr) \div (divy + 1)

\* __clk_get_parent_rate(_CK_MPU), which is clk_stm32_get_rate(CK_MPU)
clk_get_parent_rate_CK_MPU(src, mpudiv, selr, cfgr1, cfgr2, fracr) ==
    CASE src = RCC_MPCKSELR_HSI -> osc_frequency(osc_HSI)
      [] src = RCC_MPCKSELR_HSE -> osc_frequency(osc_HSE)
      [] src = RCC_MPCKSELR_PLL -> stm32mp1_read_pll_freq(selr, cfgr1, cfgr2, fracr)
      [] src = RCC_MPCKSELR_PLL_MPUDIV ->
            IF mpudiv % (RCC_MPUDIV_MASK + 1) # 0
            THEN stm32mp1_read_pll_freq(selr, cfgr1, cfgr2, fracr)
                     \div (2 ^ stm32mp1_mpu_div[(mpudiv % (RCC_MPUDIV_MASK + 1)) + 1])
            ELSE 0
      [] OTHER -> 0

(***************************************************************************)
(* PLL engine: register values of a divider configuration                  *)
(***************************************************************************)
pll_compute_pllxcfgr2(pllcfg) ==
    (pllcfg.P % (RCC_PLLNCFGR2_DIVX_MASK + 1))
    + ((pllcfg.Q % (RCC_PLLNCFGR2_DIVX_MASK + 1)) * (2 ^ RCC_PLLNCFGR2_DIVQ_SHIFT))
    + ((pllcfg.R % (RCC_PLLNCFGR2_DIVX_MASK + 1)) * (2 ^ RCC_PLLNCFGR2_DIVR_SHIFT))

\* [ret, value]: ret is -1 when the divided reference is out of range.
\* PLL1 is of type PLL_1600, for which ifrge stays 0.
pll_compute_pllxcfgr1(selr, pllcfg) ==
    LET refclk == stm32mp1_pll_get_fref(selr) \div (pllcfg.M + 1) IN
    IF \/ refclk < PLL_1600_refclk_min * 1000000
       \/ refclk > PLL_1600_refclk_max * 1000000
    THEN [ret |-> -1, value |-> 0]
    ELSE [ret |-> 0,
          value |-> (pllcfg.N % (RCC_PLLNCFGR1_DIVN_MASK + 1))
                    + ((pllcfg.M % (2 ^ RCC_PLLNCFGR1_DIVM_WIDTH))
                           * (2 ^ RCC_PLLNCFGR1_DIVM_SHIFT))]

\* value written last to the fractional register by pll_config
pll_fracr_value(fracv) ==
    LET value == fracv * (2 ^ RCC_PLLNFRACR_FRACV_SHIFT) IN
    IF (value \div RCC_PLLNFRACR_FRACLE) % 2 = 1
    THEN value
    ELSE value + RCC_PLLNFRACR_FRACLE

\* variant: whatever differs, the PLL has to be stopped
is_pll_config_on_the_fly_never(selr, cfgr1, cfgr2, fracr, pllcfg, fracv) ==
    LET c1 == pll_compute_pllxcfgr1(selr, pllcfg) IN
    IF c1.ret # 0
    THEN [ret |-> c1.ret, result |-> -1]
    ELSE IF cfgr1 = c1.value
            /\ fracr = pll_fracr_value(fracv)
            /\ cfgr2 = pll_compute_pllxcfgr2(pllcfg)
    THEN [ret |-> 0, result |-> 1]
    ELSE [ret |-> 0, result |-> -1]

\* [ret, result]: result -1 when DIVM/DIVN differ, 1 when nothing differs,
\* 0 when only the fractional part or the output dividers differ
is_pll_config_on_the_fly(selr, cfgr1, cfgr2, fracr, pllcfg, fracv) ==
    LET c1 == pll_compute_pllxcfgr1(selr, pllcfg) IN
    IF c1.ret # 0
    THEN [ret |-> c1.ret, result |-> -1]
    ELSE IF cfgr1 # c1.value
    THEN [ret |-> 0, result |-> -1]
    ELSE IF fracr = pll_fracr_value(fracv) /\ cfgr2 = pll_compute_pllxcfgr2(pllcfg)
    THEN [ret |-> 0, result |-> 1]
    ELSE [ret |-> 0, result |-> 0]

\* variant: the quotient itself is returned
stm32mp1_get_mpu_div_quotient(freq_khz, pll1_p_hz) ==
    LET freq_pll1_p == pll1_p_hz \div 1000 IN
    IF freq_pll1_p % freq_khz # 0
    THEN -1
    ELSE IF (freq_pll1_p \div freq_khz) \in { 1, 2, 4, 8, 16 }
    THEN (freq_pll1_p \div freq_khz) - 1
    ELSE -1

\* index of the MPU divider reaching freq_khz from the PLL1 P rate, -1 if none
stm32mp1_get_mpu_div(freq_khz, pll1_p_hz) ==
    LET freq_pll1_p == pll1_p_hz \div 1000 IN
    IF freq_pll1_p % freq_khz # 0
    THEN -1
    ELSE IF (freq_pll1_p \div freq_khz) \in { 1, 2, 4, 8, 16 }
    THEN ffs_minus_1(freq_pll1_p \div freq_khz)
    ELSE -1

(***************************************************************************)
(* PLL1 settings of the operating points (pll1_settings)                   *)
(***************************************************************************)
OppSlots == 0..(PLAT_MAX_OPP_NB - 1)

PQR(p, q, r) ==
    (p % 2) + (2 * (q % 2)) + (4 * (r % 2))

NoCfg == [M |-> 0, N |-> 0, P |-> 0, Q |-> 0, R |-> 0, O |-> 0]

\* zero-initialised static pll1_settings
EmptySettings ==
    [valid_id |-> 0,
     freq |-> [i \in OppSlots |-> 0],
     volt |-> [i \in OppSlots |-> 0],
     cfg  |-> [i \in OppSlots |-> NoCfg],
     frac |-> [i \in OppSlots |-> 0]]

\* first slot holding freq_khz, PLAT_MAX_OPP_NB when there is none
opp_slot_lookup(settings, freq_khz) ==
    IF \E i \in OppSlots : settings.freq[i] = freq_khz
    THEN CHOOSE i \in OppSlots :
            /\ settings.freq[i] = freq_khz
            /\ \A j \in OppSlots : settings.freq[j] = freq_khz => i <= j
    ELSE PLAT_MAX_OPP_NB

\* One pass of the body of the refinement loop of clk_compute_pll1_settings:
\* dividers divm and divp, and the j-th fractional value tried (j = 0, 1).
\* With freq = output_freq * (divm + 1) * (divp + 1) = q * input_freq + r:
\* divn = q - 1 and frac = (r * FRAC_MAX) / input_freq + j.
\* order is the position of the pass in the iteration of the three loops
\* (divm downwards, divp upwards, j upwards).
Pll1Candidate(input_freq, output_freq, divm, divp, j) ==
    LET post_divm == input_freq \div (divm + 1)
        qr == MulQR(output_freq, (divm + 1) * (divp + 1), input_freq)
        divn == qr[1] - 1
        none == [ok |-> FALSE, order |-> 0, M |-> 0, N |-> 0, P |-> 0,
                 frac |-> 0, diff |-> 0]
    IN  IF post_divm < POST_DIVM_MIN \/ post_divm > POST_DIVM_MAX
        THEN none
        ELSE IF divn < DIVN_MIN \/ divn > DIVN_MAX
        THEN none
        ELSE LET frac == MulDiv(qr[2], FRAC_MAX, input_freq) + j
                 vco == (post_divm * (divn + 1))
                        + MulDiv(post_divm, frac, FRAC_MAX)
                 freq == vco \div (divp + 1)
             IN  IF frac > FRAC_MAX
                 THEN none
                 ELSE IF vco < (VCO_MIN \div 2) \/ vco > (VCO_MAX \div 2)
                 THEN none
                 ELSE [ok |-> TRUE,
                       order |-> ((DIVM_MAX - divm) * 2 * (DIVP_MAX + 1))
                                 + (2 * divp) + j,
                       M |-> divm, N |-> divn, P |-> divp, frac |-> frac,
                       diff |-> IF output_freq < freq
                                THEN freq - output_freq
                                ELSE output_freq - freq]

Pll1Candidates(input_freq, output_freq) ==
    { c \in { Pll1Candidate(input_freq, output_freq, divm, divp, j) :
                  divm \in { m \in DIVM_MIN..DIVM_MAX :
                                 /\ input_freq \div (m + 1) >= POST_DIVM_MIN
                                 /\ input_freq \div (m + 1) <= POST_DIVM_MAX },
                  divp \in DIVP_MIN..DIVP_MAX,
                  j \in 0..1 } : c.ok }

\* [ret, settings].  The loops keep the first pass in iteration order among
\* those of least diff (a pass replaces the kept one only when its diff is
\* strictly less, and the search stops at the first pass of diff 0).
clk_compute_pll1_settings(settings, input_freq, idx) ==
    LET output_freq == settings.freq[idx] * 1000
        cands == Pll1Candidates(input_freq, output_freq)
    IN  IF cands = {}
        THEN [ret |-> -1,
              settings |-> [settings EXCEPT
                  !.cfg[idx] = [@ EXCEPT !.Q = 0, !.R = 0, !.O = 0]]]
        ELSE LET best == CHOOSE c \in cands :
                            \A d \in cands :
                                \/ c.diff < d.diff
                                \/ (c.diff = d.diff /\ c.order <= d.order)
             IN  [ret |-> 0,
                  settings |-> [settings EXCEPT
                      !.cfg[idx] = [M |-> best.M, N |-> best.N, P |-> best.P,
                                    Q |-> 0, R |-> 0, O |-> PQR(1, 0, 0)],
                      !.frac[idx] = best.frac]]

\* variant: the result of the search is dropped
clk_get_pll1_settings_ret0(settings, clksrc, index) ==
    LET i == opp_slot_lookup(settings, settings.freq[index]) IN
    IF settings.cfg[i].O = 0
    THEN [ret |-> 0,
          settings |-> clk_compute_pll1_settings(settings,
              osc_frequency(IF clksrc = CLK_PLL12_HSI THEN osc_HSI ELSE osc_HSE),
              index).settings]
    ELSE [ret |-> 0, settings |-> settings]

\* [ret, settings]; clksrc is CLK_PLL12_HSI or CLK_PLL12_HSE
clk_get_pll1_settings(settings, clksrc, index) ==
    LET i == opp_slot_lookup(settings, settings.freq[index]) IN
    IF settings.cfg[i].O = 0
    THEN clk_compute_pll1_settings(settings,
             osc_frequency(IF clksrc = CLK_PLL12_HSI THEN osc_HSI ELSE osc_HSE),
             index)
    ELSE [ret |-> 0, settings |-> settings]

\* [index, settings]: the slot of the frequency the CPU runs at receives the
\* dividers found in the PLL1 registers; index is -1 when there is no such
\* slot or its voltage is not buck1_voltage
clk_save_current_pll1_settings(settings, boot, buck1_voltage) ==
    LET freq == UDIV_ROUND_NEAREST(
                    clk_get_parent_rate_CK_MPU(boot.src, boot.mpudiv, boot.selr,
                                               boot.cfgr1, boot.cfgr2, boot.fracr),
                    1000)
        i == opp_slot_lookup(settings, freq)
    IN  IF i = PLAT_MAX_OPP_NB
           \/ (settings.volt[i] # buck1_voltage /\ buck1_voltage # 0)
        THEN [index |-> -1, settings |-> settings]
        ELSE [index |-> i,
              settings |-> [settings EXCEPT
                  !.cfg[i] =
                      [M |-> Field(boot.cfgr1, RCC_PLLNCFGR1_DIVM_SHIFT,
                                   RCC_PLLNCFGR1_DIVM_WIDTH),
                       N |-> boot.cfgr1 % (RCC_PLLNCFGR1_DIVN_MASK + 1),
                       P |-> boot.cfgr2 % (RCC_PLLNCFGR2_DIVX_MASK + 1),
                       Q |-> Field(boot.cfgr2, RCC_PLLNCFGR2_DIVQ_SHIFT, 7),
                       R |-> Field(boot.cfgr2, RCC_PLLNCFGR2_DIVR_SHIFT, 7),
                       O |-> PQR(IF "DIVPEN" \in boot.cr THEN 1 ELSE 0,
                                 IF "DIVQEN" \in boot.cr THEN 1 ELSE 0,
                                 IF "DIVREN" \in boot.cr THEN 1 ELSE 0)],
                  !.frac[i] = Field(boot.fracr, RCC_PLLNFRACR_FRACV_SHIFT,
                                    RCC_PLLNFRACR_FRACV_WIDTH)]]

stm32mp1_clk_get_pll1_current_clksrc(selr) ==
    IF selr % (RCC_SELR_REFCLK_SRC_MASK + 1) = 0 THEN CLK_PLL12_HSI ELSE CLK_PLL12_HSE

\* slots i..count-1 of the loop of stm32mp1_clk_compute_all_pll1_settings
RECURSIVE compute_all_from(_, _, _, _, _)
compute_all_from(settings, clksrc, index, count, i) ==
    IF i >= count
    THEN [settings EXCEPT !.valid_id = PLL1_SETTINGS_VALID_ID]
    ELSE IF index >= 0 /\ i = index
    THEN compute_all_from(settings, clksrc, index, count, i + 1)
    ELSE LET got == clk_get_pll1_settings(settings, clksrc, i) IN
         IF got.ret # 0
         THEN got.settings
         ELSE compute_all_from(got.settings, clksrc, index, count, i + 1)

\* pll1_settings after stm32mp1_clk_compute_all_pll1_settings; boot.dt is the
\* list of (kHz, mV) operating points read from the device tree
stm32mp1_clk_compute_all_pll1_settings(boot, buck1_voltage) ==
    IF Len(boot.dt) = 0 \/ Len(boot.dt) > PLAT_MAX_OPP_NB
    THEN EmptySettings
    ELSE LET read == [EmptySettings EXCEPT
                         !.freq = [i \in OppSlots |->
                                      IF i < Len(boot.dt) THEN boot.dt[i + 1].freq ELSE 0],
                         !.volt = [i \in OppSlots |->
                                      IF i < Len(boot.dt) THEN boot.dt[i + 1].volt ELSE 0]]
             saved == clk_save_current_pll1_settings(read, boot, buck1_voltage)
         IN  compute_all_from(saved.settings,
                              stm32mp1_clk_get_pll1_current_clksrc(boot.selr),
                              saved.index, Len(boot.dt), 0)

\* variant: the validity marker is not consulted
stm32mp1_clk_pll1_settings_are_valid_anyid(settings) ==
    settings.valid_id = settings.valid_id

stm32mp1_clk_pll1_settings_are_valid(settings) ==
    settings.valid_id = PLL1_SETTINGS_VALID_ID

\* current_opp_khz as set by save_current_opp at probe
save_current_opp(boot) ==
    UDIV_ROUND_NEAREST(
        clk_get_parent_rate_CK_MPU(boot.src, boot.mpudiv, boot.selr,
                                   boot.cfgr1, boot.cfgr2, boot.fracr),
        1000)

(***************************************************************************)
(* Operating point manager: state at the end of the boot.  A boot scenario *)
(* is what the boot stage and the device tree hand over: the CPU mux and   *)
(* divider, the PLL1 registers, and the list of operating points.          *)
(***************************************************************************)
\* PLL1 running from HSE: DIVM = 2, DIVN = 80, DIVP = 0, FRACV = 2048 with
\* FRACLE, that is 650 MHz on the P output
Pll1At650MHz ==
    [selr |-> 1, cfgr1 |-> 131152, cfgr2 |-> 0, fracr |-> 81920,
     cr |-> { "PLLON", "PLLRDY", "DIVPEN" },
     src |-> RCC_MPCKSELR_PLL, mpudiv |-> 0, dt |-> << >>]

BootScenarios ==
    { \* no operating point in the device tree
      Pll1At650MHz,
      \* the CPU runs at the first operating point
      [Pll1At650MHz EXCEPT !.dt = << [freq |-> 650000, volt |-> 1200],
                                     [freq |-> 800000, volt |-> 1350] >>],
      \* the CPU runs at a frequency that is no operating point
      [Pll1At650MHz EXCEPT !.dt = << [freq |-> 400000, volt |-> 1200],
                                     [freq |-> 800000, volt |-> 1350] >>],
      \* the CPU runs at half the PLL1 P rate through the MPU divider
      [Pll1At650MHz EXCEPT !.src = RCC_MPCKSELR_PLL_MPUDIV, !.mpudiv = 1,
                           !.dt = << [freq |-> 325000, volt |-> 1200],
                                     [freq |-> 800000, volt |-> 1350] >>],
      \* FRACV = 2049: the P rate is 650000976 Hz, rounded to 650001 kHz
      [Pll1At650MHz EXCEPT !.fracr = 81928,
                           !.dt = << [freq |-> 650001, volt |-> 1200],
                                     [freq |-> 800000, volt |-> 1350] >>],
      \* the second operating point is out of reach of PLL1
      [Pll1At650MHz EXCEPT !.dt = << [freq |-> 650000, volt |-> 1200],
                                     [freq |-> 1000000, volt |-> 1350] >>],
      \* one frequency listed at two voltages
      [Pll1At650MHz EXCEPT !.dt = << [freq |-> 800000, volt |-> 1200],
                                     [freq |-> 800000, volt |-> 1350] >>],
      \* PLL1 running from HSI: DIVM = 7, DIVN = 80, FRACV = 2048
      [Pll1At650MHz EXCEPT !.selr = 0, !.cfgr1 = 458832,
                           !.dt = << [freq |-> 650000, volt |-> 1200],
                                     [freq |-> 800000, volt |-> 1350] >>],
      \* the second operating point differs by the fractional part only
      [Pll1At650MHz EXCEPT !.dt = << [freq |-> 650000, volt |-> 1200],
                                     [freq |-> 651000, volt |-> 1350] >>],
      \* the first operating point is a quarter of the PLL1 P rate
      [Pll1At650MHz EXCEPT !.dt = << [freq |-> 162500, volt |-> 1200],
                                     [freq |-> 650000, volt |-> 1350] >>],
      \* half the PLL1 P rate, and a rate that differs from the P rate by
      \* the fractional part only
      [Pll1At650MHz EXCEPT !.dt = << [freq |-> 325000, volt |-> 1200],
                                     [freq |-> 651000, volt |-> 1350] >>] }

\* frequencies callers request: the operating points above and 500000 kHz,
\* which is an operating point of no scenario
OppRequests ==
    { 162500, 325000, 400000, 500000, 650000, 650001, 651000, 800000,
      1000000 }

OppLabel(freq, ret, tried, writes) ==
    [op |-> "set_opp", freq |-> freq, ret |-> ret, tried |-> tried,
     writes |-> writes]

NoHist == [stop_path |-> FALSE, timeout |-> FALSE, entry_opp |-> 0]

OppBoot(boot) ==
    /\ mpckselr = [src |-> boot.src, srcrdy |-> TRUE]
    /\ mpckdivr = [mpudiv |-> boot.mpudiv, divrdy |-> TRUE]
    /\ pll1cr = boot.cr
    /\ pll1cfgr1 = boot.cfgr1
    /\ pll1cfgr2 = boot.cfgr2
    /\ pll1fracr = boot.fracr
    /\ rck12selr = boot.selr
    /\ pll1_settings = stm32mp1_clk_compute_all_pll1_settings(boot, 0)
    /\ current_opp_khz = save_current_opp(boot)
    /\ opp_pc = "idle"
    /\ opp_try = "none"
    /\ opp_req = 0
    /\ opp_hist = NoHist
    /\ opp_ev = [op |-> "boot", freq |-> 0, ret |-> "none", tried |-> FALSE,
                 writes |-> NoWrites]

(***************************************************************************)
(* Register writes of the operating point switch.  A write is recorded as  *)
(* [reg, val, clr, set]: a field or register value, or the bits cleared    *)
(* and set in RCC_PLL1CR.                                                  *)
(***************************************************************************)
WReg(reg, val) ==
    [reg |-> reg, val |-> val, clr |-> {}, set |-> {}]

WBits(reg, clr, set) ==
    [reg |-> reg, val |-> 0, clr |-> clr, set |-> set]

\* the clock a source of the CPU mux selects is running
mpu_source_runs(src, cr) ==
    \/ src \in { RCC_MPCKSELR_HSI, RCC_MPCKSELR_HSE }
    \/ /\ src \in { RCC_MPCKSELR_PLL, RCC_MPCKSELR_PLL_MPUDIV }
       /\ { "PLLON", "DIVPEN" } \subseteq cr

\* bits of RCC_PLL1CR set by pll_output: output << RCC_PLLNCR_DIVEN_SHIFT
pll_output_bits(output) ==
    { b \in PllOutputBits :
        \/ (b = "DIVPEN" /\ output % 2 = 1)
        \/ (b = "DIVQEN" /\ (output \div 2) % 2 = 1)
        \/ (b = "DIVREN" /\ (output \div 4) % 2 = 1) }

\* pll_config: [ret, cfgr1, cfgr2, fracr, writes] from the registers before
pll_config(selr, cfgr1, cfgr2, fracr, pllcfg, fracv) ==
    LET c1 == pll_compute_pllxcfgr1(selr, pllcfg)
        raw == fracv * (2 ^ RCC_PLLNFRACR_FRACV_SHIFT)
        c2 == pll_compute_pllxcfgr2(pllcfg)
    IN  IF c1.ret # 0
        THEN [ret |-> c1.ret, cfgr1 |-> cfgr1, cfgr2 |-> cfgr2,
              fracr |-> fracr, writes |-> NoWrites]
        ELSE [ret |-> 0, cfgr1 |-> c1.value, cfgr2 |-> c2,
              fracr |-> pll_fracr_value(fracv),
              writes |-> << WReg("RCC_PLL1CFGR1", c1.value),
                            WReg("RCC_PLL1FRACR", c1.value),
                            WReg("RCC_PLL1FRACR", raw),
                            WReg("RCC_PLL1FRACR", pll_fracr_value(fracv)),
                            WReg("RCC_PLL1CFGR2", c2) >>]

(***************************************************************************)
(* stm32mp1_set_opp_khz and pll1_config_from_opp_khz, cut at each status   *)
(* poll.  A poll either observes the status bit or runs into its timeout;  *)
(* the source-ready bit can be observed only when the selected clock runs, *)
(* the PLL ready bit drops at some point after PLLON is cleared.           *)
(***************************************************************************)
\* freq_khz of the pll1_config_from_opp_khz call in progress
opp_target ==
    IF opp_try = "apply" THEN opp_req ELSE current_opp_khz

opp_idx ==
    opp_slot_lookup(pll1_settings, opp_target)

TimedOut(hist) ==
    [hist EXCEPT !.timeout = TRUE]

\* pll1_config_from_opp_khz goes on to its next poll
config_goes_on(next_pc, writes, hist) ==
    /\ opp_pc' = next_pc
    /\ opp_hist' = hist
    /\ opp_ev' = OppLabel(opp_req, "pending", TRUE, writes)
    /\ UNCHANGED << opp_try, opp_req, current_opp_khz >>

\* pll1_config_from_opp_khz returns ret to stm32mp1_set_opp_khz, which
\* records the new operating point, calls it again for the previous one,
\* returns -1, or panics
config_returns(ret, writes, hist) ==
    /\ opp_hist' = hist
    /\ IF opp_try = "apply"
       THEN IF ret = 0
            THEN /\ current_opp_khz' = opp_req
                 /\ opp_pc' = "idle"
                 /\ opp_try' = "none"
                 /\ opp_req' = 0
                 /\ opp_ev' = OppLabel(opp_req, "0", TRUE, writes)
            ELSE /\ opp_pc' = "config"
                 /\ opp_try' = "restore"
                 /\ opp_ev' = OppLabel(opp_req, "pending", TRUE, writes)
                 /\ UNCHANGED << current_opp_khz, opp_req >>
       ELSE IF ret = 0
            THEN /\ opp_pc' = "idle"
                 /\ opp_try' = "none"
                 /\ opp_req' = 0
                 /\ opp_ev' = OppLabel(opp_req, "-1", TRUE, writes)
                 /\ UNCHANGED current_opp_khz
            ELSE /\ opp_pc' = "panic"
                 /\ opp_ev' = OppLabel(opp_req, "panic", TRUE, writes)
                 /\ UNCHANGED << current_opp_khz, opp_try, opp_req >>

\* variant: entry without the test against current_opp_khz
stm32mp1_set_opp_khz_always(freq_khz) ==
    /\ opp_pc = "idle"
    /\ UNCHANGED << gateVars, rateVars, pmVars >>
    /\ UNCHANGED << oppRegs, pll1_settings, current_opp_khz >>
    /\ opp_hist' = [stop_path |-> FALSE, timeout |-> FALSE,
                    entry_opp |-> current_opp_khz]
    /\ IF ~stm32mp1_clk_pll1_settings_are_valid(pll1_settings)
       THEN /\ opp_ev' = OppLabel(freq_khz, "-1", FALSE, NoWrites)
            /\ UNCHANGED << opp_pc, opp_try, opp_req >>
       ELSE IF mpckselr.src % (RCC_SELR_SRC_MASK + 1)
                   \notin { RCC_MPCKSELR_PLL, RCC_MPCKSELR_PLL_MPUDIV }
       THEN /\ opp_ev' = OppLabel(freq_khz, "-1", FALSE, NoWrites)
            /\ UNCHANGED << opp_pc, opp_try, opp_req >>
       ELSE /\ opp_pc' = "config"
            /\ opp_try' = "apply"
            /\ opp_req' = freq_khz
            /\ opp_ev' = OppLabel(freq_khz, "pending", TRUE, NoWrites)

\* entry of stm32mp1_set_opp_khz, up to its first call of
\* pll1_config_from_opp_khz
stm32mp1_set_opp_khz(freq_khz) ==
    /\ opp_pc = "idle"
    /\ UNCHANGED << gateVars, rateVars, pmVars >>
    /\ UNCHANGED << oppRegs, pll1_settings, current_opp_khz >>
    /\ opp_hist' = [stop_path |-> FALSE, timeout |-> FALSE,
                    entry_opp |-> current_opp_khz]
    /\ IF freq_khz = current_opp_khz
       THEN /\ opp_ev' = OppLabel(freq_khz, "0", FALSE, NoWrites)
            /\ UNCHANGED << opp_pc, opp_try, opp_req >>
       ELSE IF ~stm32mp1_clk_pll1_settings_are_valid(pll1_settings)
       THEN /\ opp_ev' = OppLabel(freq_khz, "-1", FALSE, NoWrites)
            /\ UNCHANGED << opp_pc, opp_try, opp_req >>
       ELSE IF mpckselr.src % (RCC_SELR_SRC_MASK + 1)
                   \notin { RCC_MPCKSELR_PLL, RCC_MPCKSELR_PLL_MPUDIV }
       THEN /\ opp_ev' = OppLabel(freq_khz, "-1", FALSE, NoWrites)
            /\ UNCHANGED << opp_pc, opp_try, opp_req >>
       ELSE /\ opp_pc' = "config"
            /\ opp_try' = "apply"
            /\ opp_req' = freq_khz
            /\ opp_ev' = OppLabel(freq_khz, "pending", TRUE, NoWrites)

\* What freq_pll1_p % freq_khz and freq_pll1_p / freq_khz of
\* stm32mp1_get_mpu_div can do: with freq_khz = 0 the behaviour is undefined,
\* the division either raises a fault (TRUE) or returns (FALSE).
DivisionOutcomes(freq_khz) ==
    IF freq_khz = 0 THEN BOOLEAN ELSE { FALSE }

\* pll1_config_from_opp_khz from its entry up to its first poll or return
pll1_config_from_opp_khz ==
    /\ opp_pc = "config"
    /\ UNCHANGED << gateVars, rateVars, pmVars >>
    /\ UNCHANGED << rck12selr, pll1_settings >>
    /\ IF opp_idx = PLAT_MAX_OPP_NB
       THEN /\ config_returns(-1, NoWrites, opp_hist)
            /\ UNCHANGED << mpckselr, mpckdivr, pll1cr, pll1cfgr1, pll1cfgr2,
                            pll1fracr >>
       ELSE \E faults \in DivisionOutcomes(opp_target) :
            IF faults
            THEN \* freq_pll1_p % freq_khz with freq_khz = 0 raises a fault
                 /\ opp_pc' = "fault"
                 /\ opp_hist' = opp_hist
                 /\ opp_ev' = OppLabel(opp_req, "fault", TRUE, NoWrites)
                 /\ UNCHANGED << opp_try, opp_req, current_opp_khz >>
                 /\ UNCHANGED << mpckselr, mpckdivr, pll1cr, pll1cfgr1,
                                 pll1cfgr2, pll1fracr >>
            ELSE
            LET pllcfg == pll1_settings.cfg[opp_idx]
                fracv == pll1_settings.frac[opp_idx]
                div == IF opp_target = 0
                       THEN \* the division returns 0 and leaves the
                            \* dividend as remainder: no divider
                            -1
                       ELSE stm32mp1_get_mpu_div(opp_target,
                                stm32mp1_read_pll_freq(rck12selr, pll1cfgr1,
                                                       pll1cfgr2, pll1fracr))
                fly == is_pll_config_on_the_fly(rck12selr, pll1cfgr1,
                           pll1cfgr2, pll1fracr, pllcfg, fracv)
                cfg == pll_config(rck12selr, pll1cfgr1, pll1cfgr2, pll1fracr,
                                  pllcfg, fracv)
            IN
            IF div = 0
            THEN \* return stm32mp1_set_clksrc(CLK_MPU_PLL1P)
                 /\ mpckselr' = [src |-> CLK_MPU_PLL1P % (RCC_SELR_SRC_MASK + 1),
                                 srcrdy |-> FALSE]
                 /\ config_goes_on("fast_src",
                        << WReg("RCC_MPCKSELR", CLK_MPU_PLL1P % (RCC_SELR_SRC_MASK + 1)) >>,
                        opp_hist)
                 /\ UNCHANGED << mpckdivr, pll1cr, pll1cfgr1, pll1cfgr2,
                                 pll1fracr >>
            ELSE IF div > 0
            THEN \* stm32mp1_set_clkdiv(div, RCC_MPCKDIVR)
                 /\ mpckdivr' = [mpudiv |-> div % (RCC_DIVR_DIV_MASK + 1),
                                 divrdy |-> FALSE]
                 /\ config_goes_on("fast_div",
                        << WReg("RCC_MPCKDIVR", div % (RCC_DIVR_DIV_MASK + 1)) >>,
                        opp_hist)
                 /\ UNCHANGED << mpckselr, pll1cr, pll1cfgr1, pll1cfgr2,
                                 pll1fracr >>
            ELSE IF fly.ret # 0
            THEN /\ config_returns(fly.ret, NoWrites, opp_hist)
                 /\ UNCHANGED << mpckselr, mpckdivr, pll1cr, pll1cfgr1,
                                 pll1cfgr2, pll1fracr >>
            ELSE IF fly.result = 1
            THEN /\ config_returns(0, NoWrites, opp_hist)
                 /\ UNCHANGED << mpckselr, mpckdivr, pll1cr, pll1cfgr1,
                                 pll1cfgr2, pll1fracr >>
            ELSE IF fly.result = -1
            THEN \* stm32mp1_set_clksrc(CLK_MPU_HSI)
                 /\ mpckselr' = [src |-> CLK_MPU_HSI % (RCC_SELR_SRC_MASK + 1),
                                 srcrdy |-> FALSE]
                 /\ config_goes_on("hsi_src",
                        << WReg("RCC_MPCKSELR", CLK_MPU_HSI % (RCC_SELR_SRC_MASK + 1)) >>,
                        [opp_hist EXCEPT !.stop_path = TRUE])
                 /\ UNCHANGED << mpckdivr, pll1cr, pll1cfgr1, pll1cfgr2,
                                 pll1fracr >>
            ELSE \* pll_config on the fly
                 /\ pll1cfgr1' = cfg.cfgr1
                 /\ pll1cfgr2' = cfg.cfgr2
                 /\ pll1fracr' = cfg.fracr
                 /\ config_returns(cfg.ret, cfg.writes, opp_hist)
                 /\ UNCHANGED << mpckselr, mpckdivr, pll1cr >>

\* poll of stm32mp1_set_clkdiv, then stm32mp1_set_clksrc(CLK_MPU_PLL1P_DIV)
set_clkdiv_poll ==
    /\ opp_pc = "fast_div"
    /\ UNCHANGED << gateVars, rateVars, pmVars >>
    /\ UNCHANGED << rck12selr, pll1_settings, pll1cr, pll1cfgr1, pll1cfgr2,
                    pll1fracr >>
    /\ \/ /\ mpckdivr' = [mpckdivr EXCEPT !.divrdy = TRUE]
          /\ mpckselr' = [src |-> CLK_MPU_PLL1P_DIV % (RCC_SELR_SRC_MASK + 1),
                          srcrdy |-> FALSE]
          /\ config_goes_on("fast_src",
                 << WReg("RCC_MPCKSELR", CLK_MPU_PLL1P_DIV % (RCC_SELR_SRC_MASK + 1)) >>,
                 opp_hist)
       \/ /\ config_returns(-1, NoWrites, TimedOut(opp_hist))
          /\ UNCHANGED << mpckselr, mpckdivr >>

\* variant: the poll has no timeout and goes on reading RCC_SELR_SRCRDY
set_clksrc_pll_poll_retry ==
    /\ opp_pc \in { "fast_src", "back_src" }
    /\ UNCHANGED << gateVars, rateVars, pmVars >>
    /\ UNCHANGED << rck12selr, pll1_settings, mpckdivr, pll1cr, pll1cfgr1,
                    pll1cfgr2, pll1fracr >>
    /\ \/ /\ mpu_source_runs(mpckselr.src, pll1cr)
          /\ mpckselr' = [mpckselr EXCEPT !.srcrdy = TRUE]
          /\ config_returns(0, NoWrites, opp_hist)
       \/ /\ opp_hist' = TimedOut(opp_hist)
          /\ UNCHANGED << mpckselr, opp_pc, opp_try, opp_req,
                          current_opp_khz, opp_ev >>

\* poll of the stm32mp1_set_clksrc that ends pll1_config_from_opp_khz: on
\* the divider path, and back to PLL1 after the reconfiguration
set_clksrc_pll_poll ==
    /\ opp_pc \in { "fast_src", "back_src" }
    /\ UNCHANGED << gateVars, rateVars, pmVars >>
    /\ UNCHANGED << rck12selr, pll1_settings, mpckdivr, pll1cr, pll1cfgr1,
                    pll1cfgr2, pll1fracr >>
    /\ \/ /\ mpu_source_runs(mpckselr.src, pll1cr)
          /\ mpckselr' = [mpckselr EXCEPT !.srcrdy = TRUE]
          /\ config_returns(0, NoWrites, opp_hist)
       \/ /\ config_returns(-1, NoWrites, TimedOut(opp_hist))
          /\ UNCHANGED mpckselr

\* poll of stm32mp1_set_clksrc(CLK_MPU_HSI), then the writes of pll_stop
set_clksrc_hsi_poll ==
    /\ opp_pc = "hsi_src"
    /\ UNCHANGED << gateVars, rateVars, pmVars >>
    /\ UNCHANGED << rck12selr, pll1_settings, mpckdivr, pll1cfgr1, pll1cfgr2,
                    pll1fracr >>
    /\ \/ /\ mpu_source_runs(mpckselr.src, pll1cr)
          /\ mpckselr' = [mpckselr EXCEPT !.srcrdy = TRUE]
          /\ pll1cr' = (pll1cr \ PllOutputBits) \ { "PLLON" }
          /\ config_goes_on("stop_rdy",
                 << WBits("RCC_PLL1CR", PllOutputBits, {}),
                    WBits("RCC_PLL1CR", { "PLLON" }, {}) >>,
                 opp_hist)
       \/ /\ config_returns(-1, NoWrites, TimedOut(opp_hist))
          /\ UNCHANGED << mpckselr, pll1cr >>

\* poll of pll_stop, which leaves its loop when it reads PLLRDY as 1; then
\* pll_config and pll_start
pll_stop_poll ==
    /\ opp_pc = "stop_rdy"
    /\ UNCHANGED << gateVars, rateVars, pmVars >>
    /\ UNCHANGED << rck12selr, pll1_settings, mpckselr, mpckdivr >>
    /\ LET cfg == pll_config(rck12selr, pll1cfgr1, pll1cfgr2, pll1fracr,
                             pll1_settings.cfg[opp_idx],
                             pll1_settings.frac[opp_idx])
       IN
       \/ /\ "PLLRDY" \in pll1cr
          /\ pll1cfgr1' = cfg.cfgr1
          /\ pll1cfgr2' = cfg.cfgr2
          /\ pll1fracr' = cfg.fracr
          /\ IF cfg.ret # 0
             THEN /\ config_returns(cfg.ret, NoWrites, opp_hist)
                  /\ UNCHANGED pll1cr
             ELSE IF "PLLON" \in pll1cr
             THEN /\ config_goes_on("lock_rdy", cfg.writes, opp_hist)
                  /\ UNCHANGED pll1cr
             ELSE /\ pll1cr' = (pll1cr \ PllOutputBits) \cup { "PLLON" }
                  /\ config_goes_on("lock_rdy",
                         cfg.writes \o << WBits("RCC_PLL1CR", PllOutputBits,
                                                { "PLLON" }) >>,
                         opp_hist)
       \/ /\ pll1cr' = pll1cr \ { "PLLRDY" }
          /\ config_returns(-1, NoWrites, TimedOut(opp_hist))
          /\ UNCHANGED << pll1cfgr1, pll1cfgr2, pll1fracr >>

\* poll of pll_output, then its write of the output enables and
\* stm32mp1_set_clksrc(CLK_MPU_PLL1P)
pll_output_poll ==
    /\ opp_pc = "lock_rdy"
    /\ UNCHANGED << gateVars, rateVars, pmVars >>
    /\ UNCHANGED << rck12selr, pll1_settings, mpckdivr, pll1cfgr1, pll1cfgr2,
                    pll1fracr >>
    /\ LET bits == pll_output_bits(pll1_settings.cfg[opp_idx].O) IN
       \/ /\ "PLLON" \in pll1cr
          /\ pll1cr' = (pll1cr \cup { "PLLRDY" }) \cup bits
          /\ mpckselr' = [src |-> CLK_MPU_PLL1P % (RCC_SELR_SRC_MASK + 1),
                          srcrdy |-> FALSE]
          /\ config_goes_on("back_src",
                 << WBits("RCC_PLL1CR", {}, bits),
                    WReg("RCC_MPCKSELR", CLK_MPU_PLL1P % (RCC_SELR_SRC_MASK + 1)) >>,
                 opp_hist)
       \/ /\ pll1cr' = pll1cr \ { "PLLRDY" }
          /\ config_returns(-1, NoWrites, TimedOut(opp_hist))
          /\ UNCHANGED mpckselr

(***************************************************************************)
(* stm32mp1_round_opp_khz: *freq_khz is replaced by the rounded frequency.  *)
(***************************************************************************)
\* frequencies callers ask to round: the requests of the switch, values
\* below, between and above the operating points, and 0
RoundRequests ==
    OppRequests \cup { 0, 1, 399999, 649999, 650002, 900000 }

\* variant: the loop keeps the frequencies at or above the request
RECURSIVE round_opp_scan_up(_, _, _, _)
round_opp_scan_up(settings, freq_khz, i, round_opp) ==
    IF i >= PLAT_MAX_OPP_NB
    THEN round_opp
    ELSE round_opp_scan_up(settings, freq_khz, i + 1,
             IF settings.freq[i] >= freq_khz /\ settings.freq[i] > round_opp
             THEN settings.freq[i]
             ELSE round_opp)

\* the loop over the slots from slot i on, round_opp being the value so far
RECURSIVE round_opp_scan(_, _, _, _)
round_opp_scan(settings, freq_khz, i, round_opp) ==
    IF i >= PLAT_MAX_OPP_NB
    THEN round_opp
    ELSE round_opp_scan(settings, freq_khz, i + 1,
             IF settings.freq[i] <= freq_khz /\ settings.freq[i] > round_opp
             THEN settings.freq[i]
             ELSE round_opp)

\* variant: the table is scanned whether it is valid or not
round_opp_khz_scan_only(settings, current, freq_khz) ==
    round_opp_scan(settings, freq_khz, 0, 0)

\* value left in *freq_khz
round_opp_khz(settings, current, freq_khz) ==
    IF ~stm32mp1_clk_pll1_settings_are_valid(settings)
    THEN current
    ELSE round_opp_scan(settings, freq_khz, 0, 0)

RoundLabel(freq, out) ==
    [op |-> "round_opp", freq |-> freq, ret |-> "0", tried |-> FALSE,
     writes |-> NoWrites, out |-> out]

stm32mp1_round_opp_khz(freq_khz) ==
    /\ opp_pc = "idle"
    /\ UNCHANGED << gateVars, rateVars, pmVars >>
    /\ UNCHANGED << oppRegs, pll1_settings, current_opp_khz >>
    /\ UNCHANGED << opp_pc, opp_try, opp_req, opp_hist >>
    /\ opp_ev' = RoundLabel(freq_khz,
                     round_opp_khz(pll1_settings, current_opp_khz, freq_khz))

NextOpp ==
    \/ \E freq_khz \in OppRequests : stm32mp1_set_opp_khz(freq_khz)
    \/ \E freq_khz \in RoundRequests : stm32mp1_round_opp_khz(freq_khz)
    \/ pll1_config_from_opp_khz
    \/ set_clkdiv_poll
    \/ set_clksrc_pll_poll
    \/ set_clksrc_hsi_poll
    \/ pll_stop_poll
    \/ pll_output_poll

(***************************************************************************)
(* Rate resolver: parent of a clock and rate of a parent.  Parent          *)
(* identifiers are written as the names of enum stm32mp1_parent_id.        *)
(***************************************************************************)
\* parent_id_clock_id[], in index order, for the clock identifiers of the
\* model: << parent, clock id >>
parent_id_clock_id ==
    << << "_HSI", CK_HSI >>, << "_HSE", CK_HSE >>, << "_CSI", CK_CSI >>,
       << "_LSI", CK_LSI >>, << "_LSE", CK_LSE >>,
       << "_HSI_KER", CK_HSI >>, << "_HSE_KER", CK_HSE >>,
       << "_HSE_KER_DIV2", CK_HSE_DIV2 >>, << "_CSI_KER", CK_CSI >>,
       << "_PLL1_P", PLL1_P >>, << "_PLL3_R", PLL3_R >>,
       << "_PLL4_P", PLL4_P >>,
       << "_ACLK", CK_AXI >>, << "_PCLK1", CK_AXI >>, << "_PCLK2", CK_AXI >>,
       << "_PCLK3", CK_AXI >>, << "_PCLK4", CK_AXI >>, << "_PCLK5", CK_AXI >>,
       << "_HCLK6", CK_AXI >>, << "_HCLK2", CK_AXI >>,
       << "_CK_PER", CK_PER >>,
       << "_CK_MPU", CK_MPU >>, << "_CK_MCU", CK_MCU >> >>

RECURSIVE clock_id2parent_id_from(_, _)
clock_id2parent_id_from(id, n) ==
    IF n > Len(parent_id_clock_id)
    THEN "_UNKNOWN_ID"
    ELSE IF parent_id_clock_id[n][2] = id
    THEN parent_id_clock_id[n][1]
    ELSE clock_id2parent_id_from(id, n + 1)

clock_id2parent_id(id) ==
    clock_id2parent_id_from(id, 1)

\* stm32mp1_clk_sel[]: register field, mask and parents of a selector
stm32mp1_clk_sel ==
    [ s \in { "_USART1_SEL", "_RNG1_SEL", "_RTC_SEL", "_SPI6_SEL" } |->
        CASE s = "_USART1_SEL" ->
                 [offset |-> "RCC_UART1CKSELR", msk |-> 7,
                  parent |-> << "_PCLK5", "_PLL3_Q", "_HSI_KER", "_CSI_KER",
                                "_PLL4_Q", "_HSE_KER" >>]
          [] s = "_SPI6_SEL" ->
                 [offset |-> "RCC_SPI6CKSELR", msk |-> 7,
                  parent |-> << "_PCLK5", "_PLL4_Q", "_HSI_KER", "_CSI_KER",
                                "_HSE_KER", "_PLL3_Q" >>]
          [] s = "_RNG1_SEL" ->
                 [offset |-> "RCC_RNG1CKSELR", msk |-> 3,
                  parent |-> << "_CSI", "_PLL4_R", "_LSE", "_LSI" >>]
          [] s = "_RTC_SEL" ->
                 [offset |-> "RCC_BDCR", msk |-> 3,
                  parent |-> << "_UNKNOWN_ID", "_LSE", "_LSI", "_HSE" >>] ]

\* .sel and .fixed of the entries of stm32mp1_clk_gate[] whose rate is asked
gate_parent ==
    [ id \in { DDRC1, DDRC2, SPI6_K, USART1_K, RNG1_K, RTC, TIM12_K, TIM15_K,
                 CK_DBG } |->
        CASE id \in { DDRC1, DDRC2 } ->
                 [sel |-> "_UNKNOWN_SEL", fixed |-> "_ACLK"]
          [] id = SPI6_K   -> [sel |-> "_SPI6_SEL", fixed |-> "_UNKNOWN_ID"]
          [] id = USART1_K -> [sel |-> "_USART1_SEL", fixed |-> "_UNKNOWN_ID"]
          [] id = RNG1_K   -> [sel |-> "_RNG1_SEL", fixed |-> "_UNKNOWN_ID"]
          [] id = RTC      -> [sel |-> "_RTC_SEL", fixed |-> "_UNKNOWN_ID"]
          [] id = TIM12_K  -> [sel |-> "_UNKNOWN_SEL", fixed |-> "_PCLK1"]
          [] id = TIM15_K  -> [sel |-> "_UNKNOWN_SEL", fixed |-> "_PCLK2"]
          [] id = CK_DBG   -> [sel |-> "_UNKNOWN_SEL", fixed |-> "_UNKNOWN_ID"] ]

\* __clk_get_parent: the parent, "-1" when none is found, "panic"
clk_get_parent(id, regs) ==
    LET parent_id == clock_id2parent_id(id) IN
    IF parent_id # "_UNKNOWN_ID"
    THEN parent_id
    ELSE IF id \notin DOMAIN gate_parent
    THEN "panic"
    ELSE IF gate_parent[id].fixed # "_UNKNOWN_ID"
    THEN gate_parent[id].fixed
    ELSE IF gate_parent[id].sel = "_UNKNOWN_SEL"
    THEN "-1"
    ELSE LET sel == stm32mp1_clk_sel[gate_parent[id].sel]
             p_sel == regs[sel.offset] % (sel.msk + 1)
         IN  IF p_sel < Len(sel.parent)
             THEN sel.parent[p_sel + 1]
             ELSE "-1"

\* stm32mp1_clk_pll[]: reference clock sources of each PLL
stm32mp1_clk_pll_refclk ==
    [ pll \in { "_PLL1", "_PLL2", "_PLL3", "_PLL4" } |->
        CASE pll \in { "_PLL1", "_PLL2" } ->
                 << osc_HSI, osc_HSE, UNKNOWN_OSC_ID, UNKNOWN_OSC_ID >>
          [] pll = "_PLL3" ->
                 << osc_HSI, osc_HSE, osc_CSI, UNKNOWN_OSC_ID >>
          [] pll = "_PLL4" ->
                 << osc_HSI, osc_HSE, osc_CSI, osc_I2S_CKIN >> ]

\* pllncfgr2[]: shift of the output divider of a leg
pllncfgr2 ==
    [ div_id \in { "_DIV_P", "_DIV_Q", "_DIV_R" } |->
        CASE div_id = "_DIV_P" -> 0
          [] div_id = "_DIV_Q" -> RCC_PLLNCFGR2_DIVQ_SHIFT
          [] div_id = "_DIV_R" -> RCC_PLLNCFGR2_DIVR_SHIFT ]

\* stm32mp1_read_pll_freq for any PLL, from its four registers
read_pll_freq(pll_id, div_id, selr, cfgr1, cfgr2, fracr) ==
    LET refclk == osc_frequency(stm32mp1_clk_pll_refclk[pll_id]
                                    [(selr % (RCC_SELR_REFCLK_SRC_MASK + 1)) + 1])
        divm == Field(cfgr1, RCC_PLLNCFGR1_DIVM_SHIFT, RCC_PLLNCFGR1_DIVM_WIDTH)
        divn == cfgr1 % (RCC_PLLNCFGR1_DIVN_MASK + 1)
        fracv == Field(fracr, RCC_PLLNFRACR_FRACV_SHIFT, RCC_PLLNFRACR_FRACV_WIDTH)
        fvco == WordsValue(pll_get_fvco_words(refclk, divm, divn,
                    (fracr \div RCC_PLLNFRACR_FRACLE) % 2 = 1, fracv))
        divy == Field(cfgr2, pllncfgr2[div_id], 7)
    IN  fvco \div (divy + 1)

\* stm32mp1_mcu_div[], stm32mp1_apbx_div[], stm32mp1_axi_div[]
stm32mp1_mcu_div == << 0, 1, 2, 3, 4, 6, 7, 8, 9, 9, 9, 9, 9, 9, 9, 9 >>

stm32mp1_apbx_div == << 0, 1, 2, 3, 4, 4, 4, 4 >>

stm32mp1_axi_div == << 1, 2, 3, 4, 4, 4, 4, 4 >>

RCC_ASSCKSELR_HSI == 0
RCC_ASSCKSELR_HSE == 1
RCC_ASSCKSELR_PLL == 2
RCC_MSSCKSELR_HSI == 0
RCC_MSSCKSELR_HSE == 1
RCC_MSSCKSELR_CSI == 2
RCC_MSSCKSELR_PLL == 3
RCC_CPERCKSELR_HSI == 0
RCC_CPERCKSELR_CSI == 1
RCC_CPERCKSELR_HSE == 2
RCC_AXIDIV_MASK == 7
RCC_APBXDIV_MASK == 7
RCC_MCUDIV_MASK == 15
RCC_TIMGXPRER_TIMGXPRE == 1

\* the registers of a PLL: PLL1 and the source of PLL2 are the live
\* registers of the operating point switch
PllRegs(pll_id) ==
    IF pll_id = "_PLL1"
    THEN [selr |-> rck12selr, cfgr1 |-> pll1cfgr1, cfgr2 |-> pll1cfgr2,
          fracr |-> pll1fracr]
    ELSE IF pll_id = "_PLL2"
    THEN [rate_regs.pll[pll_id] EXCEPT !.selr = rck12selr]
    ELSE rate_regs.pll[pll_id]

PllLegRate(pll_id, div_id) ==
    LET r == PllRegs(pll_id) IN
    read_pll_freq(pll_id, div_id, r.selr, r.cfgr1, r.cfgr2, r.fracr)

\* oscillator of a parent that is an oscillator or its kernel alias
ParentOsc ==
    [ p \in { "_HSI", "_HSI_KER", "_CSI", "_CSI_KER", "_HSE", "_HSE_KER",
              "_LSI", "_LSE" } |->
        CASE p \in { "_HSI", "_HSI_KER" } -> osc_HSI
          [] p \in { "_CSI", "_CSI_KER" } -> osc_CSI
          [] p \in { "_HSE", "_HSE_KER" } -> osc_HSE
          [] p = "_LSI" -> osc_LSI
          [] p = "_LSE" -> osc_LSE ]

\* PLL and output leg of a parent that is a PLL output
ParentPllLeg ==
    [ p \in { "_PLL1_P", "_PLL1_Q", "_PLL1_R", "_PLL2_P", "_PLL2_Q", "_PLL2_R",
              "_PLL3_P", "_PLL3_Q", "_PLL3_R", "_PLL4_P", "_PLL4_Q", "_PLL4_R" } |->
        << CASE p \in { "_PLL1_P", "_PLL1_Q", "_PLL1_R" } -> "_PLL1"
             [] p \in { "_PLL2_P", "_PLL2_Q", "_PLL2_R" } -> "_PLL2"
             [] p \in { "_PLL3_P", "_PLL3_Q", "_PLL3_R" } -> "_PLL3"
             [] OTHER -> "_PLL4",
           CASE p \in { "_PLL1_P", "_PLL2_P", "_PLL3_P", "_PLL4_P" } -> "_DIV_P"
             [] p \in { "_PLL1_Q", "_PLL2_Q", "_PLL3_Q", "_PLL4_Q" } -> "_DIV_Q"
             [] OTHER -> "_DIV_R" >> ]

\* __clk_get_parent_rate
clk_get_parent_rate(p) ==
    CASE p = "_CK_MPU" ->
            clk_get_parent_rate_CK_MPU(mpckselr.src, mpckdivr.mpudiv, rck12selr,
                                       pll1cfgr1, pll1cfgr2, pll1fracr)
      [] p \in { "_ACLK", "_HCLK2", "_HCLK6", "_PCLK4", "_PCLK5" } ->
            LET src == rate_regs.RCC_ASSCKSELR % (RCC_SELR_SRC_MASK + 1)
                clock == CASE src = RCC_ASSCKSELR_HSI -> osc_frequency(osc_HSI)
                           [] src = RCC_ASSCKSELR_HSE -> osc_frequency(osc_HSE)
                           [] src = RCC_ASSCKSELR_PLL -> PllLegRate("_PLL2", "_DIV_P")
                           [] OTHER -> 0
                axi == clock \div stm32mp1_axi_div[
                           (rate_regs.RCC_AXIDIVR % (RCC_AXIDIV_MASK + 1)) + 1]
            IN  CASE p = "_PCLK4" ->
                        axi \div (2 ^ stm32mp1_apbx_div[
                            (rate_regs.RCC_APB4DIVR % (RCC_APBXDIV_MASK + 1)) + 1])
                  [] p = "_PCLK5" ->
                        axi \div (2 ^ stm32mp1_apbx_div[
                            (rate_regs.RCC_APB5DIVR % (RCC_APBXDIV_MASK + 1)) + 1])
                  [] OTHER -> axi
      [] p \in { "_CK_MCU", "_PCLK1", "_PCLK2", "_PCLK3" } ->
            LET src == rate_regs.RCC_MSSCKSELR % (RCC_SELR_SRC_MASK + 1)
                clock == CASE src = RCC_MSSCKSELR_HSI -> osc_frequency(osc_HSI)
                           [] src = RCC_MSSCKSELR_HSE -> osc_frequency(osc_HSE)
                           [] src = RCC_MSSCKSELR_CSI -> osc_frequency(osc_CSI)
                           [] src = RCC_MSSCKSELR_PLL -> PllLegRate("_PLL3", "_DIV_P")
                           [] OTHER -> 0
                mcu == clock \div (2 ^ stm32mp1_mcu_div[
                           (rate_regs.RCC_MCUDIVR % (RCC_MCUDIV_MASK + 1)) + 1])
            IN  CASE p = "_PCLK1" ->
                        mcu \div (2 ^ stm32mp1_apbx_div[
                            (rate_regs.RCC_APB1DIVR % (RCC_APBXDIV_MASK + 1)) + 1])
                  [] p = "_PCLK2" ->
                        mcu \div (2 ^ stm32mp1_apbx_div[
                            (rate_regs.RCC_APB2DIVR % (RCC_APBXDIV_MASK + 1)) + 1])
                  [] p = "_PCLK3" ->
                        mcu \div (2 ^ stm32mp1_apbx_div[
                            (rate_regs.RCC_APB3DIVR % (RCC_APBXDIV_MASK + 1)) + 1])
                  [] OTHER -> mcu
      [] p = "_CK_PER" ->
            LET src == rate_regs.RCC_CPERCKSELR % (RCC_SELR_SRC_MASK + 1) IN
            CASE src = RCC_CPERCKSELR_HSI -> osc_frequency(osc_HSI)
              [] src = RCC_CPERCKSELR_HSE -> osc_frequency(osc_HSE)
              [] src = RCC_CPERCKSELR_CSI -> osc_frequency(osc_CSI)
              [] OTHER -> 0
      [] p = "_HSE_KER_DIV2" -> osc_frequency(osc_HSE) \div 2
      [] p \in DOMAIN ParentOsc -> osc_frequency(ParentOsc[p])
      [] p \in DOMAIN ParentPllLeg ->
            PllLegRate(ParentPllLeg[p][1], ParentPllLeg[p][2])
      [] OTHER -> 0

\* variant: the multiplier applied when the TIMGxPRE bit is set, whatever
\* the divider of the bus
get_timer_rate_timgxpre(parent_rate, apb_bus) ==
    LET timgxpre == (IF apb_bus = 1 THEN rate_regs.RCC_TIMG1PRER
                                    ELSE rate_regs.RCC_TIMG2PRER)
                       % (RCC_TIMGXPRER_TIMGXPRE + 1)
    IN  IF timgxpre = 0
        THEN parent_rate
        ELSE parent_rate * (timgxpre + 1) * 2

\* get_timer_rate
get_timer_rate(parent_rate, apb_bus) ==
    LET apbxdiv == (IF apb_bus = 1 THEN rate_regs.RCC_APB1DIVR
                                   ELSE rate_regs.RCC_APB2DIVR)
                       % (RCC_APBXDIV_MASK + 1)
        timgxpre == (IF apb_bus = 1 THEN rate_regs.RCC_TIMG1PRER
                                    ELSE rate_regs.RCC_TIMG2PRER)
                       % (RCC_TIMGXPRER_TIMGXPRE + 1)
    IN  IF apbxdiv = 0
        THEN parent_rate
        ELSE parent_rate * (timgxpre + 1) * 2

\* variant: the timer prescaler rule applied whatever the identifier
get_rate_value_prescaled(id, p) ==
    IF p = "-1"
    THEN 0
    ELSE get_timer_rate(clk_get_parent_rate(p), 1)

\* value returned by clk_stm32_get_rate(id); a parent of "-1" yields 0
get_rate_value(id, p) ==
    IF p = "-1"
    THEN 0
    ELSE LET rate == clk_get_parent_rate(p)
             rate1 == IF id >= TIM2_K /\ id <= TIM14_K
                      THEN get_timer_rate(rate, 1) ELSE rate
         IN  IF id >= TIM1_K /\ id <= TIM17_K
             THEN get_timer_rate(rate1, 2) ELSE rate1

(***************************************************************************)
(* Registers the rate resolver reads, as the boot loader may leave them    *)
(***************************************************************************)
\* PLL2, PLL3 and PLL4 as programmed for a 24 MHz HSE: PLL2 P at 264 MHz,
\* PLL3 P at 204 MHz, PLL4 P at 99 MHz
PllBootRegs ==
    [ pll \in { "_PLL2", "_PLL3", "_PLL4" } |->
        CASE pll = "_PLL2" ->
                 [selr |-> 1, cfgr1 |-> 131137, cfgr2 |-> 257, fracr |-> 0,
                  cr |-> { "PLLON", "PLLRDY", "DIVPEN", "DIVQEN", "DIVREN" }]
          [] pll = "_PLL3" ->
                 [selr |-> 1, cfgr1 |-> 65569, cfgr2 |-> 2363393, fracr |-> 0,
                  cr |-> { "PLLON", "PLLRDY", "DIVPEN", "DIVQEN", "DIVREN" }]
          [] pll = "_PLL4" ->
                 [selr |-> 1, cfgr1 |-> 196706, cfgr2 |-> 460549, fracr |-> 0,
                  cr |-> { "PLLON", "PLLRDY", "DIVPEN", "DIVQEN", "DIVREN" }] ]

\* bus sources, dividers and timer prescalers
BusProfiles ==
    { [RCC_ASSCKSELR |-> 2, RCC_AXIDIVR |-> 0, RCC_APB4DIVR |-> 1,
       RCC_APB5DIVR |-> 2, RCC_MSSCKSELR |-> 3, RCC_MCUDIVR |-> 0,
       RCC_APB1DIVR |-> 1, RCC_APB2DIVR |-> 1, RCC_APB3DIVR |-> 1,
       RCC_TIMG1PRER |-> 0, RCC_TIMG2PRER |-> 0, RCC_CPERCKSELR |-> 2],
      [RCC_ASSCKSELR |-> 0, RCC_AXIDIVR |-> 1, RCC_APB4DIVR |-> 0,
       RCC_APB5DIVR |-> 0, RCC_MSSCKSELR |-> 0, RCC_MCUDIVR |-> 1,
       RCC_APB1DIVR |-> 0, RCC_APB2DIVR |-> 2, RCC_APB3DIVR |-> 0,
       RCC_TIMG1PRER |-> 1, RCC_TIMG2PRER |-> 1, RCC_CPERCKSELR |-> 0],
      [RCC_ASSCKSELR |-> 1, RCC_AXIDIVR |-> 7, RCC_APB4DIVR |-> 7,
       RCC_APB5DIVR |-> 3, RCC_MSSCKSELR |-> 2, RCC_MCUDIVR |-> 9,
       RCC_APB1DIVR |-> 2, RCC_APB2DIVR |-> 0, RCC_APB3DIVR |-> 4,
       RCC_TIMG1PRER |-> 1, RCC_TIMG2PRER |-> 0, RCC_CPERCKSELR |-> 1],
      [RCC_ASSCKSELR |-> 3, RCC_AXIDIVR |-> 2, RCC_APB4DIVR |-> 2,
       RCC_APB5DIVR |-> 1, RCC_MSSCKSELR |-> 1, RCC_MCUDIVR |-> 15,
       RCC_APB1DIVR |-> 3, RCC_APB2DIVR |-> 3, RCC_APB3DIVR |-> 2,
       RCC_TIMG1PRER |-> 0, RCC_TIMG2PRER |-> 1, RCC_CPERCKSELR |-> 3] }

RateRegs(bus, uart1, spi6, rng1, bdcr) ==
    [RCC_ASSCKSELR |-> bus.RCC_ASSCKSELR, RCC_AXIDIVR |-> bus.RCC_AXIDIVR,
     RCC_APB4DIVR |-> bus.RCC_APB4DIVR, RCC_APB5DIVR |-> bus.RCC_APB5DIVR,
     RCC_MSSCKSELR |-> bus.RCC_MSSCKSELR, RCC_MCUDIVR |-> bus.RCC_MCUDIVR,
     RCC_APB1DIVR |-> bus.RCC_APB1DIVR, RCC_APB2DIVR |-> bus.RCC_APB2DIVR,
     RCC_APB3DIVR |-> bus.RCC_APB3DIVR, RCC_TIMG1PRER |-> bus.RCC_TIMG1PRER,
     RCC_TIMG2PRER |-> bus.RCC_TIMG2PRER, RCC_CPERCKSELR |-> bus.RCC_CPERCKSELR,
     RCC_UART1CKSELR |-> uart1, RCC_SPI6CKSELR |-> spi6,
     RCC_RNG1CKSELR |-> rng1, RCC_BDCR |-> bdcr,
     pll |-> PllBootRegs]

\* reset values of the kernel clock selectors, first bus profile
RateRegsReset ==
    RateRegs(CHOOSE bus \in BusProfiles :
                 bus.RCC_ASSCKSELR = 2 /\ bus.RCC_MSSCKSELR = 3, 0, 0, 0, 0)

RateBoot(regs) ==
    /\ rate_regs = regs
    /\ rate_ev = [op |-> "boot", id |-> 0, parent |-> "none", rate |-> 0]

\* clock identifiers whose rate is asked
RateIds ==
    { CK_HSI, CK_HSE, CK_CSI, CK_LSI, CK_LSE, CK_HSE_DIV2, CK_PER, CK_MPU,
      CK_AXI, CK_MCU, PLL1_P, PLL3_R, PLL4_P, USART1_K, SPI6_K, RNG1_K, RTC,
      TIM12_K, TIM15_K, DDRC1, CK_DBG }

clk_stm32_get_rate(id) ==
    /\ ~panicked
    /\ LET p == clk_get_parent(id, rate_regs) IN
       /\ p # "panic"
       /\ rate_ev' = [op |-> "get_rate", id |-> id, parent |-> p,
                      rate |-> get_rate_value(id, p)]
    /\ UNCHANGED << gateVars, oppVars, rate_regs, pmVars >>

(***************************************************************************)
(* clk_compute_pll1_settings, loop by loop.  pll1_search holds the locals  *)
(* of the function, the cells of the slot it writes and its return value.  *)
(***************************************************************************)
\* UINT_MAX, held as the two's-complement representative of its 32-bit value
UINT_MAX == -1

\* variant: a pass replaces the kept one also when its diff is equal
diff_below_best_or_equal(diff, best_diff) ==
    IF best_diff = UINT_MAX THEN TRUE ELSE diff <= best_diff

\* diff < best_diff on unsigned int
diff_below_best(diff, best_diff) ==
    IF best_diff = UINT_MAX THEN diff # UINT_MAX ELSE diff < best_diff

SearchIdle ==
    [pc |-> "idle", input_freq |-> 0, output_freq |-> 0, divm |-> 0,
     divn |-> 0, divp |-> 0, frac |-> 0, i |-> 0, best_diff |-> UINT_MAX,
     cfg |-> NoCfg, cfg_frac |-> 0, ret |-> "none"]

\* reference clocks and target frequencies (kHz) handed to the search
SearchInputs == { osc_frequency(osc_HSE), osc_frequency(osc_HSI) }

SearchTargets == OppRequests \cup { 3000, 630857, 1000000 }

\* entry: locals initialised, Q, R and O of the slot written
clk_compute_pll1_settings_entry(input_freq, freq_khz) ==
    /\ pll1_search.pc = "idle"
    /\ pll1_search' =
           [SearchIdle EXCEPT !.pc = "divm", !.input_freq = input_freq,
                              !.output_freq = freq_khz * 1000,
                              !.divm = DIVM_MAX, !.ret = "pending",
                              !.cfg = [NoCfg EXCEPT !.O = PQR(1, 0, 0)]]
    /\ UNCHANGED << gateVars, oppVars, rateVars, backup_clock_sc_cfg,
                    suspended, lp_data, lp_ev, stopVars >>

\* variant: a divided reference out of range does not move on to the next
\* divm
clk_compute_pll1_settings_divm_no_step ==
    /\ pll1_search.pc = "divm"
    /\ LET sr == pll1_search
           post_divm == sr.input_freq \div (sr.divm + 1)
       IN  pll1_search' =
             IF sr.divm < DIVM_MIN
             THEN IF sr.best_diff = UINT_MAX
                  THEN [sr EXCEPT !.pc = "done", !.ret = "-1", !.cfg.O = 0]
                  ELSE [sr EXCEPT !.pc = "done", !.ret = "0"]
             ELSE IF post_divm < POST_DIVM_MIN \/ post_divm > POST_DIVM_MAX
             THEN sr
             ELSE [sr EXCEPT !.pc = "divp", !.divp = DIVP_MIN]
    /\ UNCHANGED << gateVars, oppVars, rateVars, backup_clock_sc_cfg,
                    suspended, lp_data, lp_ev, stopVars >>

\* variant: a failed scan leaves the output marker of the slot as written
\* at the entry
clk_compute_pll1_settings_divm_keeps_marker ==
    /\ pll1_search.pc = "divm"
    /\ LET sr == pll1_search
           post_divm == sr.input_freq \div (sr.divm + 1)
       IN  pll1_search' =
             IF sr.divm < DIVM_MIN
             THEN IF sr.best_diff = UINT_MAX
                  THEN [sr EXCEPT !.pc = "done", !.ret = "-1"]
                  ELSE [sr EXCEPT !.pc = "done", !.ret = "0"]
             ELSE IF post_divm < POST_DIVM_MIN \/ post_divm > POST_DIVM_MAX
             THEN [sr EXCEPT !.divm = @ - 1]
             ELSE [sr EXCEPT !.pc = "divp", !.divp = DIVP_MIN]
    /\ UNCHANGED << gateVars, oppVars, rateVars, backup_clock_sc_cfg,
                    suspended, lp_data, lp_ev, stopVars >>

\* head of the divm loop, and the code after it
clk_compute_pll1_settings_divm ==
    /\ pll1_search.pc = "divm"
    /\ LET sr == pll1_search
           post_divm == sr.input_freq \div (sr.divm + 1)
       IN  pll1_search' =
             IF sr.divm < DIVM_MIN
             THEN IF sr.best_diff = UINT_MAX
                  THEN [sr EXCEPT !.pc = "done", !.ret = "-1", !.cfg.O = 0]
                  ELSE [sr EXCEPT !.pc = "done", !.ret = "0"]
             ELSE IF post_divm < POST_DIVM_MIN \/ post_divm > POST_DIVM_MAX
             THEN [sr EXCEPT !.divm = @ - 1]
             ELSE [sr EXCEPT !.pc = "divp", !.divp = DIVP_MIN]
    /\ UNCHANGED << gateVars, oppVars, rateVars, backup_clock_sc_cfg,
                    suspended, lp_data, lp_ev, stopVars >>

\* head of the divp loop: divn and the first fractional value
clk_compute_pll1_settings_divp ==
    /\ pll1_search.pc = "divp"
    /\ LET sr == pll1_search
           qr == MulQR(sr.output_freq, (sr.divm + 1) * (sr.divp + 1),
                       sr.input_freq)
           divn == qr[1] - 1
       IN  pll1_search' =
             IF sr.divp > DIVP_MAX
             THEN [sr EXCEPT !.pc = "divm", !.divm = @ - 1]
             ELSE IF divn < DIVN_MIN \/ divn > DIVN_MAX
             THEN [sr EXCEPT !.divn = divn, !.divp = @ + 1]
             ELSE [sr EXCEPT !.pc = "frac", !.divn = divn, !.i = 2,
                             !.frac = MulDiv(qr[2], FRAC_MAX, sr.input_freq)]
    /\ UNCHANGED << gateVars, oppVars, rateVars, backup_clock_sc_cfg,
                    suspended, lp_data, lp_ev, stopVars >>

\* one pass of the refinement loop
clk_compute_pll1_settings_frac ==
    /\ pll1_search.pc = "frac"
    /\ LET sr == pll1_search
           post_divm == sr.input_freq \div (sr.divm + 1)
           vco == (post_divm * (sr.divn + 1))
                  + MulDiv(post_divm, sr.frac, FRAC_MAX)
           freq == vco \div (sr.divp + 1)
           diff == IF sr.output_freq < freq
                   THEN freq - sr.output_freq
                   ELSE sr.output_freq - freq
           kept == [sr EXCEPT !.cfg.M = sr.divm, !.cfg.N = sr.divn,
                              !.cfg.P = sr.divp, !.cfg_frac = sr.frac]
       IN  pll1_search' =
             IF sr.i = 0 \/ sr.frac > FRAC_MAX
             THEN [sr EXCEPT !.pc = "divp", !.divp = @ + 1]
             ELSE IF vco < (VCO_MIN \div 2) \/ vco > (VCO_MAX \div 2)
             THEN [sr EXCEPT !.frac = @ + 1, !.i = @ - 1]
             ELSE IF diff_below_best(diff, sr.best_diff)
             THEN IF diff = 0
                  THEN [kept EXCEPT !.pc = "done", !.ret = "0"]
                  ELSE [kept EXCEPT !.best_diff = diff, !.frac = @ + 1,
                                    !.i = @ - 1]
             ELSE [sr EXCEPT !.frac = @ + 1, !.i = @ - 1]
    /\ UNCHANGED << gateVars, oppVars, rateVars, backup_clock_sc_cfg,
                    suspended, lp_data, lp_ev, stopVars >>

SearchStep ==
    \/ clk_compute_pll1_settings_divm
    \/ clk_compute_pll1_settings_divp
    \/ clk_compute_pll1_settings_frac

(***************************************************************************)
(* Settings record: computation at probe and export to retention memory    *)
(***************************************************************************)
PLAT_MAX_PLLCFG_NB == 6

\* value returned by stm32mp1_clk_compute_all_pll1_settings
compute_all_pll1_settings_ret(boot, buck1_voltage) ==
    IF Len(boot.dt) = 0 \/ Len(boot.dt) > PLAT_MAX_OPP_NB
    THEN 0
    ELSE IF stm32mp1_clk_compute_all_pll1_settings(boot, buck1_voltage).valid_id
                = PLL1_SETTINGS_VALID_ID
    THEN 0
    ELSE -1

\* sizeof(pll1_settings), in bytes
sizeof_pll1_settings ==
    4 * (1 + (PLAT_MAX_OPP_NB * (3 + PLAT_MAX_PLLCFG_NB)))

pllcfg_cells(cfg) ==
    << cfg.M, cfg.N, cfg.P, cfg.Q, cfg.R, cfg.O >>

RECURSIVE cfg_cells(_, _)
cfg_cells(settings, i) ==
    IF i >= PLAT_MAX_OPP_NB
    THEN << >>
    ELSE pllcfg_cells(settings.cfg[i]) \o cfg_cells(settings, i + 1)

\* variant: the voltages laid out before the frequencies
settings_cells_volt_first(settings) ==
    << settings.valid_id >>
    \o [i \in 1..PLAT_MAX_OPP_NB |-> settings.volt[i - 1]]
    \o [i \in 1..PLAT_MAX_OPP_NB |-> settings.freq[i - 1]]
    \o cfg_cells(settings, 0)
    \o [i \in 1..PLAT_MAX_OPP_NB |-> settings.frac[i - 1]]

\* struct stm32mp1_pll_settings as it lies in memory, one 32-bit cell per
\* element
settings_cells(settings) ==
    << settings.valid_id >>
    \o [i \in 1..PLAT_MAX_OPP_NB |-> settings.freq[i - 1]]
    \o [i \in 1..PLAT_MAX_OPP_NB |-> settings.volt[i - 1]]
    \o cfg_cells(settings, 0)
    \o [i \in 1..PLAT_MAX_OPP_NB |-> settings.frac[i - 1]]

\* memcpy(data, &pll1_settings, size) for a size of whole cells
memcpy_settings(settings, size) ==
    SubSeq(settings_cells(settings), 1, size \div 4)

\* device trees: lists of (kHz, mV) operating points
DtTables ==
    { << >>,
      << [freq |-> 650000, volt |-> 1200] >>,
      << [freq |-> 800000, volt |-> 1350] >>,
      << [freq |-> 650000, volt |-> 1200], [freq |-> 800000, volt |-> 1350] >>,
      << [freq |-> 800000, volt |-> 1350], [freq |-> 650000, volt |-> 1200] >>,
      << [freq |-> 400000, volt |-> 1200], [freq |-> 800000, volt |-> 1350] >>,
      << [freq |-> 325000, volt |-> 1200], [freq |-> 650000, volt |-> 1200] >>,
      << [freq |-> 650001, volt |-> 1200], [freq |-> 800000, volt |-> 1350] >>,
      << [freq |-> 500000, volt |-> 1200], [freq |-> 650000, volt |-> 1350] >>,
      << [freq |-> 650000, volt |-> 1200], [freq |-> 1000000, volt |-> 1350] >>,
      << [freq |-> 800000, volt |-> 1200], [freq |-> 800000, volt |-> 1350] >>,
      << [freq |-> 400000, volt |-> 1200], [freq |-> 650000, volt |-> 1200],
         [freq |-> 800000, volt |-> 1350] >> }

\* buck1_voltage handed to the computation, 0 when the supply is not known
BuckVoltages == { 0, 1200, 1350 }

\* sizes of the buffers handed to the export
LpSizes == { sizeof_pll1_settings, sizeof_pll1_settings - 4, 0 }

\* what the boot stage handed over, read back from the registers
BootFromRegs(dt) ==
    [selr |-> rck12selr, cfgr1 |-> pll1cfgr1, cfgr2 |-> pll1cfgr2,
     fracr |-> pll1fracr, cr |-> pll1cr, src |-> mpckselr.src,
     mpudiv |-> mpckdivr.mpudiv, dt |-> dt]

LpLabel(op, ret, size, probe) ==
    [op |-> op, ret |-> ret, size |-> size, probe |-> probe]

\* stm32mp1_clk_compute_all_pll1_settings called once by the platform probe
compute_all_pll1_settings_call(dt, buck1_voltage) ==
    /\ ~panicked
    /\ lp_ev.probe = "none"
    /\ LET boot == BootFromRegs(dt)
           ret == compute_all_pll1_settings_ret(boot, buck1_voltage)
       IN  /\ pll1_settings' =
                  stm32mp1_clk_compute_all_pll1_settings(boot, buck1_voltage)
           /\ lp_ev' = LpLabel("compute_all", IF ret = 0 THEN "0" ELSE "-1", 0,
                               IF ret = 0 THEN "0" ELSE "-1")
    /\ UNCHANGED << oppRegs, current_opp_khz, opp_pc, opp_try, opp_req,
                    opp_hist, opp_ev >>
    /\ UNCHANGED << gateVars, rateVars, backup_clock_sc_cfg, suspended, lp_data,
                    pll1_search, stopVars >>

stm32mp1_clk_lp_save_opp_pll1_settings(size) ==
    /\ ~panicked
    /\ IF size # sizeof_pll1_settings
          \/ ~stm32mp1_clk_pll1_settings_are_valid(pll1_settings)
       THEN /\ panicked' = TRUE
            /\ lp_ev' = LpLabel("lp_save", "panic", size, lp_ev.probe)
            /\ UNCHANGED lp_data
       ELSE /\ lp_data' = memcpy_settings(pll1_settings, size)
            /\ lp_ev' = LpLabel("lp_save", "0", size, lp_ev.probe)
            /\ UNCHANGED panicked
    /\ UNCHANGED << rcc_secure, rcc_en, boot_en, gate_refcounts, refcount_lock,
                    calls, pc, arg, tmp, ev >>
    /\ UNCHANGED << oppVars, rateVars, backup_clock_sc_cfg, suspended,
                    pll1_search, stopVars >>

(***************************************************************************)
(* Low power: stm32_clock_suspend and stm32_clock_resume                   *)
(***************************************************************************)
\* offsets of backup_clock_sc_cfg[] that hold a gate of the registry
backup_sc_offsets ==
    { "RCC_MP_APB1ENSETR", "RCC_MP_APB2ENSETR", "RCC_MP_APB3ENSETR",
      "RCC_MP_APB4ENSETR", "RCC_MP_APB5ENSETR", "RCC_MP_AHB2ENSETR",
      "RCC_MP_AHB3ENSETR", "RCC_MP_AHB4ENSETR", "RCC_MP_AHB5ENSETR",
      "RCC_MP_AHB6ENSETR", "RCC_MP_MLAHBENSETR" } \cap EnableRegs

\* backup_sc_cfg: the values it stores
backup_sc_cfg(regs) ==
    [ r \in backup_sc_offsets |-> regs[r] ]

\* restore_sc_cfg: value to the set register, ~value to the clear register
restore_sc_cfg(regs, backup) ==
    [ r \in DOMAIN regs |-> IF r \in DOMAIN backup THEN backup[r] ELSE regs[r] ]

\* variant: the loop of stm32_clock_resume leaves every gate as restored
resume_sync_gates_skip(regs, refcounts, secure, idx) ==
    regs

\* loop of stm32_clock_resume from gate idx on: secure gates are forced to
\* the state their counter tells
RECURSIVE resume_sync_gates(_, _, _, _)
resume_sync_gates(regs, refcounts, secure, idx) ==
    IF idx >= NB_GATES
    THEN regs
    ELSE LET gate == gate_ref(idx) IN
         IF gate.secure = N_S \/ ~secure
         THEN resume_sync_gates(regs, refcounts, secure, idx + 1)
         ELSE IF refcounts[idx] # 0
         THEN resume_sync_gates(
                  HwApply(regs, clk_enable_write(gate, regs[gate.offset])),
                  refcounts, secure, idx + 1)
         ELSE resume_sync_gates(
                  HwApply(regs, clk_disable_write(gate, regs[gate.offset])),
                  refcounts, secure, idx + 1)

\* bits of RCC_OCENSETR: HSION 0, HSIKERON 1, CSION 4, CSIKERON 5, HSEON 8,
\* HSEKERON 9; ker_mask is RCC_OCENR_HSIKERON | RCC_OCENR_CSIKERON |
\* RCC_OCENR_HSEKERON
ker_mask == { 1, 5, 9 }

\* RCC_OCENSETR as the boot stage may leave it: HSI and HSE running; HSI,
\* its kernel clock, CSI and HSE running; HSI, CSI and its kernel clock
OcenrProfiles ==
    { { 0, 8 }, { 0, 1, 4, 8 }, { 0, 4, 5 } }

\* enable_kernel_clocks: RCC_OCENSETR after the write of
\* (RCC_OCENSETR << 1) & ker_mask
enable_kernel_clocks(ocenr) ==
    ocenr \cup ({ b + 1 : b \in ocenr } \cap ker_mask)

\* variant: the kernel clocks are left running
disable_kernel_clocks_none(ocenr) ==
    ocenr

\* disable_kernel_clocks: RCC_OCENCLRR written with ker_mask
disable_kernel_clocks(ocenr) ==
    ocenr \ ker_mask

(***************************************************************************)
(* Services next to the clock driver: the remote processor service, the    *)
(* RCC register service and the low power configuration.                   *)
(*                                                                         *)
(* paddr_t and size_t are 32 bits wide.  A 32-bit value is held as         *)
(* << high half-word, low half-word >>; a sum or difference that is not    *)
(* truncated keeps a high part outside 0..65535.                           *)
(***************************************************************************)
WAdd(a, b) ==
    << a[1] + b[1] + ((a[2] + b[2]) \div HalfWord), (a[2] + b[2]) % HalfWord >>

WSub(a, b) ==
    << (a[1] - b[1]) + ((a[2] - b[2]) \div HalfWord), (a[2] - b[2]) % HalfWord >>

WLeq(a, b) ==
    a[1] < b[1] \/ (a[1] = b[1] /\ a[2] <= b[2])

\* truncation to the 32 bits of paddr_t
Wrap32(a) ==
    << a[1] % HalfWord, a[2] >>

\* variant: the sum is not truncated
Add32_wide(a, b) ==
    WAdd(a, b)

\* a + b and a - b as the 32-bit unsigned arithmetic of C computes them
Add32(a, b) ==
    Wrap32(WAdd(a, b))

Sub32(a, b) ==
    Wrap32(WSub(a, b))

MCUSRAM_BASE == << 12288, 0 >>     \* 0x30000000
MCUSRAM_SIZE == << 6, 0 >>         \* 0x60000
RETRAM_BASE == << 14336, 0 >>      \* 0x38000000
RETRAM_SIZE == << 1, 0 >>          \* 0x10000

STM32_M4_FW_ID == 0

TEE_SHA256_HASH_SIZE == 32

\* rproc_ta_mp1_m4_rams[]
rproc_ta_mp1_m4_rams ==
    << [pa |-> MCUSRAM_BASE, size |-> << 2, 0 >>,
        etzpc_id |-> "STM32MP1_ETZPC_SRAM1_ID",
        attr |-> "ETZPC_DECPROT_MCU_ISOLATION"],
       [pa |-> Add32(MCUSRAM_BASE, << 2, 0 >>), size |-> << 2, 0 >>,
        etzpc_id |-> "STM32MP1_ETZPC_SRAM2_ID",
        attr |-> "ETZPC_DECPROT_MCU_ISOLATION"],
       [pa |-> Add32(MCUSRAM_BASE, << 4, 0 >>), size |-> << 1, 0 >>,
        etzpc_id |-> "STM32MP1_ETZPC_SRAM3_ID",
        attr |-> "ETZPC_DECPROT_NS_RW"],
       [pa |-> Add32(MCUSRAM_BASE, << 5, 0 >>), size |-> << 1, 0 >>,
        etzpc_id |-> "STM32MP1_ETZPC_SRAM4_ID",
        attr |-> "ETZPC_DECPROT_NS_RW"],
       [pa |-> RETRAM_BASE, size |-> RETRAM_SIZE,
        etzpc_id |-> "STM32MP1_ETZPC_RETRAM_ID",
        attr |-> "ETZPC_DECPROT_MCU_ISOLATION"] >>

\* rproc_ta_mp1_m4_mems[]
rproc_ta_mp1_m4_mems ==
    << [pa |-> MCUSRAM_BASE, da |-> << 4096, 0 >>, size |-> MCUSRAM_SIZE],
       [pa |-> MCUSRAM_BASE, da |-> << 12288, 0 >>, size |-> MCUSRAM_SIZE],
       [pa |-> RETRAM_BASE, da |-> << 0, 0 >>, size |-> RETRAM_SIZE] >>

RamBanks == 1..Len(rproc_ta_mp1_m4_rams)

EtzpcIds == { rproc_ta_mp1_m4_rams[i].etzpc_id : i \in RamBanks }

\* variant: every bank is handed to the secure world
rproc_pta_mem_protect_all(secure_access) ==
    [id \in EtzpcIds |->
        LET ram == CHOOSE r \in { rproc_ta_mp1_m4_rams[i] : i \in RamBanks } :
                       r.etzpc_id = id
        IN  IF secure_access THEN "ETZPC_DECPROT_S_RW" ELSE ram.attr]

\* rproc_pta_mem_protect: the attribute etzpc_configure_decprot is given
\* for each bank
rproc_pta_mem_protect(secure_access) ==
    [id \in EtzpcIds |->
        LET ram == CHOOSE r \in { rproc_ta_mp1_m4_rams[i] : i \in RamBanks } :
                       r.etzpc_id = id
        IN  IF secure_access /\ ram.attr = "ETZPC_DECPROT_MCU_ISOLATION"
            THEN "ETZPC_DECPROT_S_RW"
            ELSE ram.attr]

\* wellformed: the parameter types and the firmware identifier of the
\* command are the expected ones
RprocLabel(cmd, wellformed, res, da, size, pa, written, gcr) ==
    [cmd |-> cmd, wellformed |-> wellformed, res |-> res, da |-> da,
     size |-> size, pa |-> pa, written |-> written, gcr |-> gcr]

\* RCC_MP_GCR_BOOT_MCU is BIT(0), RCC_MP_CIFR_WKUPF is BIT(20)
RCC_MP_GCR_BOOT_MCU == 0
RCC_MP_CIFR_WKUPF == 20

\* rproc_pta_init: the state the service is in once the late services ran;
\* ram is what the MCU RAM banks hold at that point
RprocBoot(ram, gcr) ==
    /\ rproc_ta_state = "REMOTEPROC_OFF"
    /\ etzpc_decprot = rproc_pta_mem_protect(TRUE)
    /\ mcu_ram = ram
    /\ rcc_mp_gcr = gcr \ { RCC_MP_GCR_BOOT_MCU }
    /\ rproc_ev = RprocLabel("init", TRUE, "TEE_SUCCESS", << 0, 0 >>,
                             << 0, 0 >>, << 0, 0 >>, {}, << "clr" >>)

RccSvcBoot(cier, cifr) ==
    /\ rcc_mp_cier = cier
    /\ rcc_mp_cifr = cifr
    /\ svc_ev = [request |-> 0, x2 |-> 0, value |-> {}, ret |-> "none",
                 writes |-> << >>]

STM32_PM_CSLEEP_RUN == 0
STM32_PM_CSTOP_ALLOW_STOP == 1
STM32_PM_CSTOP_ALLOW_LP_STOP == 2
STM32_PM_CSTOP_ALLOW_LPLV_STOP == 3
STM32_PM_CSTOP_ALLOW_STANDBY_DDR_SR == 4
STM32_PM_CSTOP_ALLOW_STANDBY_DDR_OFF == 5
STM32_PM_SHUTDOWN == 6
STM32_PM_MAX_SOC_MODE == 7

PSCI_MODE_SYSTEM_SUSPEND == 0
PSCI_MODE_SYSTEM_OFF == 1

STM32MP1_PD_VSW == 0
STM32MP1_PD_CORE_RET == 1
STM32MP1_PD_CORE == 2
STM32MP1_PD_MAX_PM_DOMAIN == 3

SocModes == 0..(STM32_PM_MAX_SOC_MODE - 1)

PmDomains == 0..(STM32MP1_PD_MAX_PM_DOMAIN - 1)

PwrLabel(op, psci_mode, soc_mode, ret) ==
    [op |-> op, psci_mode |-> psci_mode, soc_mode |-> soc_mode, ret |-> ret]

\* stm32mp1_init_lp_states with a power node in the device tree: off_mode is
\* its system_off_soc_mode, supported its system_suspend_supported_soc_modes
PwrBoot(cryp, off_mode, supported) ==
    /\ cfg_stm32_cryp = cryp
    /\ system_off_mode = off_mode
    /\ deepest_suspend_mode = IF cryp
                              THEN STM32_PM_CSTOP_ALLOW_STANDBY_DDR_SR
                              ELSE STM32_PM_CSTOP_ALLOW_LPLV_STOP
    /\ stm32mp1_supported_soc_modes =
           [mode \in SocModes |-> IF mode \in supported THEN 1 ELSE 0]
    /\ stm32mp1_pm_dom = [id \in PmDomains |-> FALSE]
    /\ pwr_ev = PwrLabel("init", 0, 0, 0)

\* the services as the clock driver scenarios find them
SvcBoot ==
    /\ RprocBoot([id \in EtzpcIds |-> "zero"], {})
    /\ RccSvcBoot({}, {})
    /\ PwrBoot(FALSE, STM32_PM_SHUTDOWN, { STM32_PM_CSTOP_ALLOW_STOP })

\* the power management and low power state of the clock driver
PmDriverBoot(ocenr) ==
    /\ rcc_ocenr = ocenr
    /\ lp_writes = << >>
    /\ backup_clock_sc_cfg = [ r \in backup_sc_offsets |-> {} ]
    /\ suspended = FALSE
    /\ lp_data = << >>
    /\ lp_ev = [op |-> "boot", ret |-> "none", size |-> 0, probe |-> "none"]
    /\ pll1_search = SearchIdle
    /\ soc_stop_ctx = [pll3cr |-> {}, pll4cr |-> {}, mssckselr |-> 0,
                       mcudivr |-> 0]
    /\ stop_pc = "run"
    /\ stop_ev = [op |-> "boot", pll |-> "none", output |-> 0, ret |-> "none",
                  before |-> {}, after |-> {}]

PmBootWith(ocenr) ==
    /\ PmDriverBoot(ocenr)
    /\ SvcBoot

PmBoot ==
    PmBootWith({ 0, 8 })

\* the power management framework suspends once every caller has returned
stm32_clock_suspend ==
    /\ ~panicked
    /\ UNCHANGED svcVars
    /\ ~suspended
    /\ \A c \in Cores : pc[c] = "idle"
    /\ opp_pc = "idle"
    /\ backup_clock_sc_cfg' = backup_sc_cfg(rcc_en)
    /\ soc_stop_ctx' = [soc_stop_ctx EXCEPT
                            !.pll3cr = rate_regs.pll["_PLL3"].cr,
                            !.pll4cr = rate_regs.pll["_PLL4"].cr]
    /\ rcc_ocenr' = enable_kernel_clocks(rcc_ocenr)
    /\ lp_writes' = << "RCC_OCENSETR", "RCC_MP_RSTSCLRR" >>
    /\ suspended' = TRUE
    /\ UNCHANGED << lp_data, lp_ev, pll1_search, stop_pc, stop_ev >>
    /\ ev' = Label("suspend", 0, "0", NoWrites)
    /\ UNCHANGED << rcc_secure, rcc_en, boot_en, gate_refcounts, refcount_lock,
                    calls, pc, arg, tmp, panicked >>
    /\ UNCHANGED << oppVars, rateVars >>

\* enable registers the RCC may hold when the SoC leaves the low power state
WakeupEnables ==
    { [ r \in EnableRegs |-> {} ],
      [ r \in EnableRegs |->
          { stm32mp1_clk_gate[k].bit :
                k \in { j \in 1..NB_GATES : stm32mp1_clk_gate[j].offset = r } } ] }

\* the low power state loses or keeps the content of the RCC; PLL3 and
\* PLL4 come back as they were or switched off
rcc_context_lost ==
    /\ suspended
    /\ ev.op = "suspend"
    /\ \E enables \in WakeupEnables : rcc_en' = enables
    /\ \E lost \in { {}, { "_PLL3", "_PLL4" } } :
           rate_regs' = [rate_regs EXCEPT
                            !.pll = [p \in DOMAIN rate_regs.pll |->
                                        IF p \in lost
                                        THEN [rate_regs.pll[p] EXCEPT !.cr = {}]
                                        ELSE rate_regs.pll[p]]]
    /\ ev' = Label("wakeup", 0, "0", NoWrites)
    /\ UNCHANGED << rcc_secure, boot_en, gate_refcounts, refcount_lock,
                    calls, pc, arg, tmp, panicked >>
    /\ UNCHANGED << oppVars, rate_ev, pmVars >>

\* RCC_PLLxCR after pll_start
pll_start_value(cr) ==
    IF "PLLON" \in cr
    THEN cr
    ELSE (cr \ PllOutputBits) \cup { "PLLON" }

\* registers pll_start writes in restore_pll34_state: PLL4, then PLL3, each
\* when it was on at the save and is off now
pll34_start_writes(ctx, regs) ==
    (IF "PLLON" \in ctx.pll4cr /\ "PLLON" \notin regs.pll["_PLL4"].cr
     THEN << "RCC_PLL4CR" >> ELSE << >>)
    \o (IF "PLLON" \in ctx.pll3cr /\ "PLLON" \notin regs.pll["_PLL3"].cr
        THEN << "RCC_PLL3CR" >> ELSE << >>)

\* registers pll_output writes in restore_pll34_state: PLL3, then PLL4
pll34_output_writes(ctx) ==
    (IF "PLLON" \in ctx.pll3cr THEN << "RCC_PLL3CR" >> ELSE << >>)
    \o (IF "PLLON" \in ctx.pll4cr THEN << "RCC_PLL4CR" >> ELSE << >>)

\* RCC_PLLxCR after restore_regular_cfg wrote back the value of the suspend
pll_cr_restored(saved) ==
    IF "PLLON" \in saved
    THEN saved \cup { "PLLRDY" }
    ELSE saved \ { "PLLRDY" }

\* what stm32_clock_resume writes after restore_pll34_state: the loops of
\* restore_mux_cfg, restore_sc_cfg and restore_regular_cfg, the gates of
\* the synchronisation loop, RCC_OCENCLRR
resume_writes_after_pll(secure) ==
    << "restore_mux_cfg", "restore_sc_cfg", "restore_regular_cfg" >>
    \o (IF \E idx \in GateIdx : gate_ref(idx).secure # N_S /\ secure
        THEN << "sync_gates" >> ELSE << >>)
    \o << "RCC_OCENCLRR" >>

\* stm32_clock_resume; a PLL that has to lock does so in time, or pll_output
\* returns -1 and restore_pll34_state panics
stm32_clock_resume ==
    /\ ~panicked
    /\ UNCHANGED svcVars
    /\ suspended
    /\ \/ /\ rcc_en' = resume_sync_gates(
                            restore_sc_cfg(rcc_en, backup_clock_sc_cfg),
                            gate_refcounts, rcc_secure, 0)
          /\ rate_regs' = [rate_regs EXCEPT
                 !.pll["_PLL3"].cr = pll_cr_restored(soc_stop_ctx.pll3cr),
                 !.pll["_PLL4"].cr = pll_cr_restored(soc_stop_ctx.pll4cr)]
          /\ rcc_ocenr' = disable_kernel_clocks(rcc_ocenr)
          /\ lp_writes' = pll34_start_writes(soc_stop_ctx, rate_regs)
                              \o pll34_output_writes(soc_stop_ctx)
                              \o resume_writes_after_pll(rcc_secure)
          /\ suspended' = FALSE
          /\ ev' = Label("resume", 0, "0", NoWrites)
          /\ UNCHANGED panicked
       \/ /\ \E p \in { "_PLL3", "_PLL4" } :
                 /\ "PLLON" \in (IF p = "_PLL3" THEN soc_stop_ctx.pll3cr
                                                ELSE soc_stop_ctx.pll4cr)
                 /\ "PLLRDY" \notin rate_regs.pll[p].cr
          /\ rate_regs' = [rate_regs EXCEPT
                 !.pll["_PLL3"].cr = IF "PLLON" \in soc_stop_ctx.pll3cr
                                     THEN pll_start_value(@) ELSE @,
                 !.pll["_PLL4"].cr = IF "PLLON" \in soc_stop_ctx.pll4cr
                                     THEN pll_start_value(@) ELSE @]
          /\ lp_writes' = pll34_start_writes(soc_stop_ctx, rate_regs)
          /\ panicked' = TRUE
          /\ ev' = Label("resume_panic", 0, "panic", NoWrites)
          /\ UNCHANGED << rcc_en, rcc_ocenr, suspended >>
    /\ UNCHANGED << rcc_secure, boot_en, gate_refcounts, refcount_lock,
                    calls, pc, arg, tmp >>
    /\ UNCHANGED << oppVars, rate_ev, backup_clock_sc_cfg, lp_data, lp_ev,
                    pll1_search, soc_stop_ctx, stop_pc, stop_ev >>

(***************************************************************************)
(* State of the gate controller at the end of the boot: the boot loader    *)
(* left any of a few enable-bit patterns, counters are zero, the lock is   *)
(* free.                                                                   *)
(***************************************************************************)
NoBits == [r \in EnableRegs |-> {}]

BootEnables ==
    { NoBits,
      [NoBits EXCEPT !["RCC_DDRITFCR"] = {2}, !["RCC_MP_APB1ENSETR"] = {6}] }

GateBoot(secure, enables) ==
    /\ rcc_secure = secure
    /\ rcc_en = enables
    /\ boot_en = rcc_en
    /\ gate_refcounts = [i \in GateIdx |-> 0]
    /\ refcount_lock = 0
    /\ calls = [i \in GateIdx |-> 0]
    /\ pc = [c \in Cores |-> "idle"]
    /\ arg = [c \in Cores |-> 0]
    /\ tmp = [c \in Cores |-> {}]
    /\ panicked = FALSE
    /\ ev = Label("boot", 0, "none", NoWrites)

(***************************************************************************)
(* Specifications: the gate controller called from every core, and the     *)
(* operating point switch called by one caller at a time.                  *)
(***************************************************************************)
InitGate ==
    /\ \E secure \in BOOLEAN, enables \in BootEnables : GateBoot(secure, enables)
    /\ OppBoot(Pll1At650MHz)
    /\ RateBoot(RateRegsReset)
    /\ PmBoot

NextGate ==
    \E c \in Cores :
        \/ \E id \in ClockIds : clk_stm32_is_enabled(c, id)
        \/ \E id \in ClockIds : clk_stm32_enable(c, id)
        \/ enable_ns_store(c)
        \/ enable_lock(c)
        \/ enable_test(c)
        \/ enable_inc(c)
        \/ enable_unlock(c)
        \/ \E id \in ClockIds : clk_stm32_disable(c, id)
        \/ disable_lock(c)
        \/ disable_dec(c)
        \/ disable_test(c)
        \/ disable_unlock(c)

SpecGate == InitGate /\ [][NextGate]_vars

InitOpp ==
    /\ GateBoot(TRUE, NoBits)
    /\ \E boot \in BootScenarios : OppBoot(boot)
    /\ RateBoot(RateRegsReset)
    /\ PmBoot

SpecOpp == InitOpp /\ [][NextOpp]_vars

\* the steps of a call of stm32mp1_set_opp_khz in progress: the core that
\* made the call goes on executing it
OppProgress ==
    \/ pll1_config_from_opp_khz
    \/ set_clkdiv_poll
    \/ set_clksrc_pll_poll
    \/ set_clksrc_hsi_poll
    \/ pll_stop_poll
    \/ pll_output_poll

SpecOppFair == SpecOpp /\ WF_vars(OppProgress)

\* the rate resolver asked about every clock, for every value of the
\* kernel clock selectors
InitRate ==
    /\ GateBoot(TRUE, NoBits)
    /\ OppBoot(Pll1At650MHz)
    /\ \E bus \in BusProfiles, uart1 \in 0..7, spi6 \in { 2, 3, 4, 6 },
          rng1 \in 0..3, bdcr \in 0..3 :
           RateBoot(RateRegs(bus, uart1, spi6, rng1, bdcr))
    /\ PmBoot

NextRate ==
    \E id \in RateIds : clk_stm32_get_rate(id)

SpecRate == InitRate /\ [][NextRate]_vars

\* a suspend/resume cycle between the calls of the gate controller; the
\* boot stage may leave a secure gate running that nobody holds
PmBootEnables ==
    BootEnables \cup { [NoBits EXCEPT !["RCC_MP_APB5ENSETR"] = {0},
                                      !["RCC_DDRITFCR"] = {0}] }

InitPm ==
    /\ \E secure \in BOOLEAN, enables \in PmBootEnables : GateBoot(secure, enables)
    /\ OppBoot(Pll1At650MHz)
    /\ RateBoot(RateRegsReset)
    /\ PmBoot

NextPm ==
    \/ \E id \in ClockIds : clk_stm32_enable(1, id)
    \/ enable_ns_store(1)
    \/ enable_lock(1)
    \/ enable_test(1)
    \/ enable_inc(1)
    \/ enable_unlock(1)
    \/ \E id \in ClockIds : clk_stm32_disable(1, id)
    \/ disable_lock(1)
    \/ disable_dec(1)
    \/ disable_test(1)
    \/ disable_unlock(1)
    \/ stm32_clock_suspend
    \/ rcc_context_lost
    \/ stm32_clock_resume

SpecPm == InitPm /\ [][NextPm]_vars

\* the settings record from the state the boot stage leaves: computed once,
\* exported to buffers of every size
LpBootRegs ==
    { [b EXCEPT !.dt = << >>] : b \in BootScenarios }

InitLp ==
    /\ GateBoot(TRUE, NoBits)
    /\ \E boot \in LpBootRegs :
          /\ OppBoot(boot)
    /\ RateBoot(RateRegsReset)
    /\ PmBoot

NextLp ==
    \/ \E dt \in DtTables, buck1_voltage \in BuckVoltages :
          compute_all_pll1_settings_call(dt, buck1_voltage)
    \/ \E size \in LpSizes : stm32mp1_clk_lp_save_opp_pll1_settings(size)

SpecLp == InitLp /\ [][NextLp]_vars

\* the divider search run on every reference clock and target frequency
InitSearch ==
    /\ GateBoot(TRUE, NoBits)
    /\ OppBoot(Pll1At650MHz)
    /\ RateBoot(RateRegsReset)
    /\ PmBoot

NextSearch ==
    \/ \E input_freq \in SearchInputs, freq_khz \in SearchTargets :
          clk_compute_pll1_settings_entry(input_freq, freq_khz)
    \/ clk_compute_pll1_settings_divm
    \/ clk_compute_pll1_settings_divp
    \/ clk_compute_pll1_settings_frac

SpecSearch == InitSearch /\ [][NextSearch]_vars

\* the function runs to its return once entered
SpecSearchFair == SpecSearch /\ WF_vars(SearchStep)

(***************************************************************************)
(* Gate controller: vocabulary of the properties                           *)
(***************************************************************************)
\* gate i is reference counted: secure class while the RCC is secure
SecureCounted(i) == gate_ref(i).secure = SEC /\ rcc_secure

GateBit(i) == gate_ref(i).bit \in rcc_en[gate_ref(i).offset]

BootClear(i) == gate_ref(i).bit \notin boot_en[gate_ref(i).offset]

\* no call on gate i is in progress
Quiescent(i) == \A c \in Cores : pc[c] = "idle" \/ arg[c] # i

GateOf(id) == CHOOSE i \in GateIdx : gate_ref(i).clock_id = id

GatedIds == { gate_ref(i).clock_id : i \in GateIdx }

AlwaysOnIds ==
    { id \in ClockIds : \/ id <= CK_HSE_DIV2
                        \/ (id >= PLL1_P /\ id <= PLL3_R)
                        \/ id = CK_MPU }

UnknownIds == (ClockIds \ GatedIds) \ AlwaysOnIds

CallOps == { "enable", "disable", "is_enabled" }

\* C1: refcount symmetry.  For a secure gate whose bit was clear at boot,
\* whenever no call on it is in progress, is_enabled(id) is true exactly
\* when more enable() than disable() calls have returned: after N enables
\* and k disables it is true for k < N and false for k = N.
C1_RefcountSymmetry ==
    \A i \in GateIdx :
        (SecureCounted(i) /\ BootClear(i) /\ Quiescent(i))
            => (is_enabled_result(gate_ref(i).clock_id, rcc_en) <=> calls[i] > 0)

\* two nested enables then one disable: the gate is still enabled
C1_Witness ==
    \E i \in GateIdx :
        /\ SecureCounted(i) /\ BootClear(i) /\ Quiescent(i)
        /\ ev.op = "disable" /\ ev.ret = "void" /\ ev.id = gate_ref(i).clock_id
        /\ calls[i] = 1
        /\ GateBit(i)

\* C2: under every interleaving of the cores, whenever the refcount lock is
\* free each secure gate (bit clear at boot) has its enable bit set iff its
\* counter is non-zero; and a write to a secure gate's bit happens only
\* when the counter is 0 and the writer is about to increment it (0 -> 1)
\* or has just decremented it (1 -> 0).
C2_BitFollowsCounter ==
    /\ refcount_lock = 0 =>
         \A i \in GateIdx :
             (SecureCounted(i) /\ BootClear(i))
                 => (GateBit(i) <=> gate_refcounts[i] # 0)
    /\ (ev.writes # NoWrites /\ ev.id \in GatedIds /\ SecureCounted(GateOf(ev.id)))
         => /\ gate_refcounts[GateOf(ev.id)] = 0
            /\ ev.op = "enable" =>
                 \E c \in Cores : pc[c] = "en_inc" /\ arg[c] = GateOf(ev.id)
            /\ ev.op = "disable" =>
                 \E c \in Cores : pc[c] = "dis_unlock" /\ arg[c] = GateOf(ev.id)

\* both cores hold a reference on one gate of a register while the other
\* gate of that register is enabled too
C2_Witness ==
    /\ rcc_secure
    /\ refcount_lock = 0
    /\ gate_refcounts[GateOf(DDRC1)] = 2
    /\ gate_refcounts[GateOf(DDRC2)] = 1
    /\ GateBit(GateOf(DDRC1)) /\ GateBit(GateOf(DDRC2))
    /\ \E c \in Cores : pc[c] = "dis_lock" /\ arg[c] = GateOf(DDRC1)

\* C3: disable() on a secure gate whose counter is 0 aborts; the counter is
\* not decremented (no counter is ever below zero) and the enable bit is
\* not cleared by that call.
C3_UnderflowAborts ==
    /\ [](\A i \in GateIdx : gate_refcounts[i] >= 0)
    /\ [][\A c \in Cores :
              (disable_dec(c) /\ gate_refcounts[arg[c]] = 0)
                  => /\ panicked'
                     /\ gate_refcounts' = gate_refcounts
                     /\ rcc_en' = rcc_en]_vars

\* the abort of a disable() on a gate the boot loader left enabled
C3_Witness ==
    /\ panicked
    /\ ev.op = "disable" /\ ev.ret = "assert"
    /\ gate_refcounts[GateOf(ev.id)] = 0
    /\ GateBit(GateOf(ev.id))

\* C4: for every gated clock, in the state right after enable(id) returned,
\* is_enabled(id) is true.
C4_EnabledAfterEnable ==
    (ev.op = "enable" /\ ev.ret = "TEE_SUCCESS" /\ ev.id \in GatedIds)
        => is_enabled_result(ev.id, rcc_en)

\* enable() returned on a secure set/clear gate that was off
C4_Witness ==
    /\ ev.op = "enable" /\ ev.ret = "TEE_SUCCESS" /\ ev.id = SPI6_K
    /\ rcc_secure
    /\ BootClear(GateOf(SPI6_K))
    /\ gate_refcounts[GateOf(SPI6_K)] = 1

\* C5: on an always-on clock enable returns success, disable returns and
\* is_enabled returns true, and the call writes no register and changes no
\* reference counter.
C5_AlwaysOnIsNoOp ==
    [][(ev'.op \in CallOps /\ ev'.id \in AlwaysOnIds)
           => /\ ev'.ret = CASE ev'.op = "enable" -> "TEE_SUCCESS"
                             [] ev'.op = "disable" -> "void"
                             [] OTHER -> "true"
              /\ ev'.writes = NoWrites
              /\ rcc_en' = rcc_en
              /\ gate_refcounts' = gate_refcounts
              /\ ~panicked']_vars

\* enable() returned on CK_HSE_DIV2 while a gate is enabled and counted
C5_Witness ==
    /\ ev.op = "enable" /\ ev.id = CK_HSE_DIV2 /\ ev.ret = "TEE_SUCCESS"
    /\ gate_refcounts[GateOf(DDRC1)] = 1

\* C6: for a non-secure class gate, or any gate while the RCC is
\* non-secure: enable() writes the gate's enable bit whatever its prior
\* state, disable() changes no register, and no step of either changes a
\* reference counter (the gate's counter stays 0).
C6_NonSecureGate ==
    [][(ev'.op \in { "enable", "disable" } /\ ev'.id \in GatedIds
           /\ (gate_ref(GateOf(ev'.id)).secure = N_S \/ ~rcc_secure))
           => /\ gate_refcounts' = gate_refcounts
              /\ gate_refcounts[GateOf(ev'.id)] = 0
              /\ (ev'.op = "enable" /\ ev'.ret = "TEE_SUCCESS")
                   => /\ Len(ev'.writes) = 1
                      /\ ev'.writes[1].reg = gate_ref(GateOf(ev'.id)).offset
                      /\ ~ev'.writes[1].clr
                      /\ gate_ref(GateOf(ev'.id)).bit \in ev'.writes[1].val
                      /\ gate_ref(GateOf(ev'.id)).bit
                             \in rcc_en'[gate_ref(GateOf(ev'.id)).offset]
              /\ ev'.op = "disable"
                   => /\ ev'.ret = "void"
                      /\ ev'.writes = NoWrites
                      /\ rcc_en' = rcc_en]_vars

\* enable() of a secure class gate wrote its bit although the bit was
\* already set, the RCC being non-secure
C6_Witness ==
    /\ ~rcc_secure
    /\ ev.op = "enable" /\ ev.ret = "TEE_SUCCESS" /\ ev.id = DDRC2
    /\ ~BootClear(GateOf(DDRC2))
    /\ Len(ev.writes) = 1
    /\ gate_refcounts[GateOf(DDRC2)] = 0

PllSources == { RCC_MPCKSELR_PLL, RCC_MPCKSELR_PLL_MPUDIV }

Pll1Registers == { "RCC_PLL1CFGR1", "RCC_PLL1CFGR2", "RCC_PLL1FRACR" }

\* frequency the CPU clock tree delivers, in kHz, as save_current_opp
\* computes it
CpuRateKhz ==
    UDIV_ROUND_NEAREST(
        clk_get_parent_rate_CK_MPU(mpckselr.src, mpckdivr.mpudiv, rck12selr,
                                   pll1cfgr1, pll1cfgr2, pll1fracr),
        1000)

\* the CPU runs at operating point freq_khz
OppApplied(freq_khz) ==
    /\ mpu_source_runs(mpckselr.src, pll1cr)
    /\ CpuRateKhz = freq_khz

TableFreqs == { pll1_settings.freq[i] : i \in OppSlots }

WritesTo(label, regs) ==
    \E k \in 1..Len(label.writes) : label.writes[k].reg \in regs

\* C8: when set_opp(f), f # current, fails after it started to apply f, it
\* returns failure only with the previous operating point restored: the
\* recorded current operating point is the one at entry, and the CPU runs
\* at the previous or at the requested operating point.
C8_FailedSwitchRestores ==
    (opp_ev.op = "set_opp" /\ opp_ev.tried /\ opp_ev.ret = "-1")
        => /\ current_opp_khz = opp_hist.entry_opp
           /\ (OppApplied(current_opp_khz) \/ OppApplied(opp_ev.freq))

\* C9: with a valid table and the CPU on PLL1, set_opp(f) for f in no slot
\* of the table (f # current) returns failure without aborting and leaves
\* the current operating point unchanged, in every state where no status
\* poll of the call timed out.
C9_UnknownOppIsRecoverable ==
    (/\ opp_ev.op = "set_opp" /\ opp_ev.tried
     /\ opp_ev.freq \notin TableFreqs
     /\ opp_ev.ret # "pending"
     /\ ~opp_hist.timeout)
        => /\ opp_ev.ret = "-1"
           /\ opp_pc # "panic"
           /\ current_opp_khz = opp_hist.entry_opp

\* C10: in an execution of set_opp that takes the stop-and-reprogram path,
\* the CPU mux selects PLL1 only while PLL1 is on, locked and its P output
\* enabled; PLL1 is switched off only in the step that saw the switch to
\* HSI acknowledged; the PLL1 divider registers are written only in the
\* step that saw pll_stop succeed, PLL1 being off.
C10_StopPathOrder ==
    /\ [](opp_hist.stop_path
            => (mpckselr.src \in PllSources
                  => { "PLLON", "PLLRDY", "DIVPEN" } \subseteq pll1cr))
    /\ [][opp_hist'.stop_path
            => /\ ("PLLON" \in pll1cr /\ "PLLON" \notin pll1cr')
                   => /\ mpckselr'.src = RCC_MPCKSELR_HSI
                      /\ mpckselr'.srcrdy
               /\ WritesTo(opp_ev', Pll1Registers)
                   => /\ opp_pc = "stop_rdy"
                      /\ "PLLON" \notin pll1cr
                      /\ mpckselr.src = RCC_MPCKSELR_HSI]_vars

\* a step that is the entry of set_opp(f): the switch is idle before, and
\* the step is labelled with the call
SetOppEntry ==
    /\ opp_pc = "idle"
    /\ opp_ev'.op = "set_opp"

\* the step returns ret to the caller of set_opp without any register
\* write and without changing the recorded operating point
ReturnsUntouched(ret) ==
    /\ opp_ev'.ret = ret
    /\ opp_ev'.writes = NoWrites
    /\ opp_pc' = "idle"
    /\ UNCHANGED << oppRegs, pll1_settings, current_opp_khz >>

\* C11: set_opp(f) with f equal to the recorded current operating point
\* returns success and writes no register, whatever the validity of the
\* table and the CPU clock source.
C11_SameOppIsNoOp ==
    [][(SetOppEntry /\ opp_ev'.freq = current_opp_khz)
          => ReturnsUntouched("0")]_vars

\* set_opp(current) returned success while the CPU mux selects HSI
C11_Witness ==
    /\ opp_ev.op = "set_opp" /\ opp_ev.ret = "0" /\ ~opp_ev.tried
    /\ opp_ev.freq = current_opp_khz
    /\ mpckselr.src = RCC_MPCKSELR_HSI

\* C12: set_opp(f), f # current, returns failure, writes no register and
\* leaves the recorded operating point unchanged when the validity marker
\* is not set or when the CPU mux selects neither PLL1P nor PLL1P with
\* divider.
C12_EarlyFailure ==
    [][(/\ SetOppEntry
        /\ opp_ev'.freq # current_opp_khz
        /\ \/ pll1_settings.valid_id # PLL1_SETTINGS_VALID_ID
           \/ mpckselr.src \notin PllSources)
          => ReturnsUntouched("-1")]_vars

\* set_opp(f), f # current, was refused with a valid table because the CPU
\* mux selects HSI
C12_Witness ==
    /\ opp_ev.op = "set_opp" /\ opp_ev.ret = "-1" /\ ~opp_ev.tried
    /\ opp_ev.freq # current_opp_khz
    /\ pll1_settings.valid_id = PLL1_SETTINGS_VALID_ID
    /\ mpckselr.src = RCC_MPCKSELR_HSI

\* C13: every call of set_opp terminates: it returns success, returns
\* failure or halts through panic, also in the behaviours where no status
\* bit is ever observed set and every poll runs into its timeout.
C13_SetOppTerminates ==
    (opp_ev.op = "set_opp" /\ opp_ev.ret = "pending")
        ~> (opp_ev.op = "set_opp" /\ opp_ev.ret \in { "0", "-1", "panic" })

\* a call of set_opp ended after one of its polls timed out
C13_Witness ==
    /\ opp_ev.op = "set_opp" /\ opp_ev.tried
    /\ opp_ev.ret \in { "-1", "panic" }
    /\ opp_hist.timeout

\* round_opp applied in the current state
RoundNow(freq_khz) ==
    round_opp_khz(pll1_settings, current_opp_khz, freq_khz)

\* C14: for the table and current operating point of any reachable state,
\* rounding the result of round_opp(x) gives that result again, and
\* round_opp is monotonic: y <= x implies round_opp(y) <= round_opp(x).
C14_RoundIdempotentMonotonic ==
    opp_ev.op = "round_opp"
        => /\ RoundNow(opp_ev.out) = opp_ev.out
           /\ \A y \in RoundRequests :
                /\ y <= opp_ev.freq => RoundNow(y) <= opp_ev.out
                /\ y >= opp_ev.freq => RoundNow(y) >= opp_ev.out

\* round_opp returned the current frequency for another request, the table
\* being invalid
C14_Witness ==
    /\ opp_ev.op = "round_opp"
    /\ pll1_settings.valid_id # PLL1_SETTINGS_VALID_ID
    /\ opp_ev.freq # current_opp_khz
    /\ opp_ev.out = current_opp_khz

\* C15: with a valid table round_opp(x) returns the largest table frequency
\* that is <= x (0, the value of an unused slot, when there is none); with
\* no valid table it returns the current operating point whatever x; the
\* call changes neither the table, nor the current operating point, nor
\* any register.
C15_RoundDown ==
    /\ [](opp_ev.op = "round_opp"
            => IF pll1_settings.valid_id = PLL1_SETTINGS_VALID_ID
               THEN /\ opp_ev.out \in
                          { f \in TableFreqs : f <= opp_ev.freq } \cup { 0 }
                    /\ \A f \in TableFreqs :
                           f <= opp_ev.freq => f <= opp_ev.out
               ELSE opp_ev.out = current_opp_khz)
    /\ [][opp_ev'.op = "round_opp"
            => /\ opp_ev'.writes = NoWrites
               /\ UNCHANGED << oppRegs, pll1_settings, current_opp_khz >>]_vars

\* round_opp rounded a request strictly down to an operating point that is
\* not the current one
C15_Witness ==
    /\ opp_ev.op = "round_opp"
    /\ pll1_settings.valid_id = PLL1_SETTINGS_VALID_ID
    /\ opp_ev.out > 0
    /\ opp_ev.out < opp_ev.freq
    /\ opp_ev.out # current_opp_khz

\* configured frequency of the oscillator behind an oscillator parent
OscParentFrequency ==
    [ p \in { "_HSI", "_HSI_KER", "_HSE", "_HSE_KER", "_CSI", "_CSI_KER",
              "_LSI", "_LSE" } |->
        CASE p \in { "_HSI", "_HSI_KER" } -> stm32mp1_osc[osc_HSI]
          [] p \in { "_HSE", "_HSE_KER" } -> stm32mp1_osc[osc_HSE]
          [] p \in { "_CSI", "_CSI_KER" } -> stm32mp1_osc[osc_CSI]
          [] p = "_LSI" -> stm32mp1_osc[osc_LSI]
          [] p = "_LSE" -> stm32mp1_osc[osc_LSE] ]

\* C16: whenever get_rate is asked about a clock whose parent resolves to
\* one of the oscillators HSI, HSE, CSI, LSI, LSE (directly or through the
\* kernel alias of the oscillator), it returns exactly the configured
\* frequency of that oscillator, whatever the selector, divider and
\* prescaler registers hold.
C16_OscillatorLeafRate ==
    (rate_ev.op = "get_rate" /\ rate_ev.parent \in DOMAIN OscParentFrequency)
        => rate_ev.rate = OscParentFrequency[rate_ev.parent]

\* the rate of a kernel clock muxed onto HSE was asked while the bus
\* dividers and the timer prescalers are active
C16_Witness ==
    /\ rate_ev.op = "get_rate"
    /\ rate_ev.id = USART1_K
    /\ rate_ev.parent = "_HSE_KER"
    /\ rate_ev.rate = 24000000
    /\ rate_regs.RCC_APB1DIVR # 0
    /\ rate_regs.RCC_APB5DIVR # 0
    /\ rate_regs.RCC_TIMG1PRER # 0

\* C17: in the state stm32_clock_resume leaves, the enable bit of every
\* gate that is secure while the RCC interface is secure is set if and only
\* if the counter of the gate is not zero, whatever suspend captured and
\* whatever the registers held on wake-up; suspend and resume change no
\* counter.
C17_ResumeSyncsSecureGates ==
    /\ [](ev.op = "resume"
            => \A i \in GateIdx :
                  ~gate_is_non_secure(gate_ref(i))
                      => (clk_is_enabled_gate(gate_ref(i), rcc_en)
                              <=> gate_refcounts[i] # 0))
    /\ [][ev'.op \in { "suspend", "resume" }
            => gate_refcounts' = gate_refcounts]_vars

\* resume ended with the RCC secure, a held secure gate, and a secure gate
\* nobody holds whose enable bit suspend had captured set
C17_Witness ==
    /\ ev.op = "resume"
    /\ rcc_secure
    /\ gate_refcounts[0] # 0
    /\ gate_refcounts[2] = 0
    /\ gate_ref(2).bit \in backup_clock_sc_cfg[gate_ref(2).offset]

\* the settings record found in an exported blob read as the live table
BlobAsSettings(blob) ==
    [valid_id |-> blob[1],
     freq |-> [i \in OppSlots |-> blob[2 + i]],
     volt |-> [i \in OppSlots |-> blob[2 + PLAT_MAX_OPP_NB + i]],
     cfg  |-> [i \in OppSlots |->
                 LET o == 2 + (2 * PLAT_MAX_OPP_NB) + (PLAT_MAX_PLLCFG_NB * i) IN
                 [M |-> blob[o], N |-> blob[o + 1], P |-> blob[o + 2],
                  Q |-> blob[o + 3], R |-> blob[o + 4], O |-> blob[o + 5]]],
     frac |-> [i \in OppSlots |->
                 blob[2 + ((2 + PLAT_MAX_PLLCFG_NB) * PLAT_MAX_OPP_NB) + i]]]

\* an export into a buffer of the size of the record succeeded and left a
\* blob that reads back as the live table
ExportRoundTrip ==
    /\ lp_ev.ret = "0"
    /\ Len(lp_data) * 4 = sizeof_pll1_settings
    /\ BlobAsSettings(lp_data) = pll1_settings

\* C18 as stated: whenever compute_all returned success, an export into a
\* buffer of the size of the record succeeds and the blob is identical to
\* the live table.
C18_ExportAfterSuccess ==
    (lp_ev.op = "lp_save" /\ lp_ev.size = sizeof_pll1_settings
        /\ lp_ev.probe = "0")
        => ExportRoundTrip

\* C18 amended: whenever compute_all returned success and marked the table
\* valid, an export into a buffer of the size of the record succeeds and
\* the blob reads back as the live table (marker, frequencies, voltages,
\* dividers, fractions); the export never modifies the live table.
C18_ExportOfValidTable ==
    /\ []((lp_ev.op = "lp_save" /\ lp_ev.size = sizeof_pll1_settings
            /\ lp_ev.probe = "0"
            /\ pll1_settings.valid_id = PLL1_SETTINGS_VALID_ID)
           => ExportRoundTrip)
    /\ [][lp_ev'.op = "lp_save" => pll1_settings' = pll1_settings]_vars

\* a table of two operating points, one of them the running one, was
\* computed and exported
C18_Witness ==
    /\ lp_ev.op = "lp_save" /\ lp_ev.ret = "0"
    /\ lp_ev.probe = "0"
    /\ pll1_settings.freq[0] = 650000 /\ pll1_settings.freq[1] = 800000
    /\ pll1_settings.cfg[0].O # 0 /\ pll1_settings.cfg[1].O # 0
    /\ lp_data[2] = 650000 /\ lp_data[4] = 1200

\* output of the P leg for dividers M, N, P and fraction frac, by the VCO
\* formula Fvco = Fref * ((N + 1) + frac / 2^13) / (M + 1)
PllOutputOf(input_freq, M, N, P, frac) ==
    MulDiv(input_freq, ((N + 1) * (2 ^ 13)) + frac, (M + 1) * (2 ^ 13))
        \div (P + 1)

\* the search has returned dividers for a 24 MHz reference and 650000 kHz
\* whose recomputed output is within 3 kHz of the target
SearchHit650 ==
    /\ pll1_search.pc = "done"
    /\ pll1_search.ret = "0"
    /\ LET out == PllOutputOf(pll1_search.input_freq, pll1_search.cfg.M,
                              pll1_search.cfg.N, pll1_search.cfg.P,
                              pll1_search.cfg_frac)
       IN  /\ out >= 650000000 - (3 * 1000)
           /\ out <= 650000000 + (3 * 1000)

\* C19: the search entered for a reference of 24000 kHz and a target of
\* 650000 kHz always reaches its return, with dividers M, N, P and a
\* fraction whose output, recomputed by the VCO formula and the divide of
\* the P leg, is within a few kHz of 650000 kHz.
C19_Search650Terminates ==
    (pll1_search.pc # "idle" /\ pll1_search.input_freq = 24000000
        /\ pll1_search.output_freq = 650000000)
        ~> SearchHit650

\* the search for 650000 kHz from 24 MHz returned M = 2, N = 80, P = 0 and
\* a fraction of a quarter
C19_Witness ==
    /\ pll1_search.pc = "done"
    /\ pll1_search.input_freq = 24000000
    /\ pll1_search.output_freq = 650000000
    /\ pll1_search.cfg.M = 2 /\ pll1_search.cfg.N = 80
    /\ pll1_search.cfg.P = 0 /\ pll1_search.cfg_frac = 2048

\* the candidates of the scan for the search that has returned
SearchCandidates ==
    Pll1Candidates(pll1_search.input_freq, pll1_search.output_freq)

\* the candidate the search returned, if it is one
SearchResult ==
    { c \in SearchCandidates :
        /\ c.M = pll1_search.cfg.M /\ c.N = pll1_search.cfg.N
        /\ c.P = pll1_search.cfg.P /\ c.frac = pll1_search.cfg_frac }

\* C20: when the search returns, its result is a candidate of the scan (M
\* from 63 down with the divided reference in 8..16 MHz, P from 0 up with N
\* in 24..99, the two fractional values in increasing order, VCO/2 in
\* 400..800 MHz) of least absolute error, and the first such candidate in
\* scan order; the search fails exactly when there is no candidate; and
\* when the result has zero error the search returned at that candidate
\* without scanning further.
C20_FirstOfLeastError ==
    pll1_search.pc = "done"
        => IF pll1_search.ret = "-1"
           THEN SearchCandidates = {}
           ELSE \E r \in SearchResult :
                  /\ \A c \in SearchCandidates :
                        \/ r.diff < c.diff
                        \/ (r.diff = c.diff /\ r.order <= c.order)
                  /\ r.diff = 0
                        => /\ pll1_search.divm = r.M
                           /\ pll1_search.divp = r.P
                           /\ pll1_search.frac = r.frac

\* the search returned, after scanning to the end, a candidate of non-zero
\* error that a later candidate of the scan equals in error
C20_Witness ==
    /\ pll1_search.pc = "done"
    /\ pll1_search.ret = "0"
    /\ pll1_search.divm < DIVM_MIN
    /\ \E r \in SearchResult :
          /\ r.diff > 0
          /\ \E c \in SearchCandidates : c.diff = r.diff /\ c.order > r.order

\* half-rate VCO of dividers divm, divn and fraction frac in its window;
\* the product is compared through a quotient to stay within the integers
InVcoWindow(input_freq, divm, divn, frac) ==
    LET post_divm == input_freq \div (divm + 1) IN
    /\ divn + 1 <= (VCO_MAX \div 2) \div post_divm
    /\ (post_divm * (divn + 1)) + MulDiv(post_divm, frac, FRAC_MAX)
           >= VCO_MIN \div 2
    /\ (post_divm * (divn + 1)) + MulDiv(post_divm, frac, FRAC_MAX)
           <= VCO_MAX \div 2

\* the combinations of M in 0..63, N in 24..99 and P in 0..127 reaching the
\* target from the reference (N is the integer part of the ratio) with the
\* VCO in its window for one of the two fractional values
VcoWindowCombos(input_freq, output_freq) ==
    { c \in { LET qr == MulQR(output_freq, (divm + 1) * (divp + 1), input_freq)
              IN  [M |-> divm, N |-> qr[1] - 1, P |-> divp,
                   frac |-> MulDiv(qr[2], FRAC_MAX, input_freq)] :
                  divm \in DIVM_MIN..DIVM_MAX, divp \in DIVP_MIN..DIVP_MAX } :
        /\ c.N >= DIVN_MIN /\ c.N <= DIVN_MAX
        /\ \/ InVcoWindow(input_freq, c.M, c.N, c.frac)
           \/ InVcoWindow(input_freq, c.M, c.N, c.frac + 1) }

ZeroMarkerEntry(freq_khz) ==
    LET i == opp_slot_lookup(pll1_settings, freq_khz) IN
    /\ freq_khz # 0
    /\ i < PLAT_MAX_OPP_NB
    /\ pll1_settings.cfg[i].O = 0

\* the step wrote a divider or fractional register of PLL1
Pll1ProgrammedByStep ==
    \E k \in 1..Len(opp_ev'.writes) :
        opp_ev'.writes[k].reg
            \in { "RCC_PLL1CFGR1", "RCC_PLL1CFGR2", "RCC_PLL1FRACR" }

\* the step made the write of pll_output to RCC_PLL1CR
Pll1OutputByStep ==
    /\ opp_pc = "lock_rdy"
    /\ opp_pc' = "back_src"

\* C22: once the search of an operating point f has failed (its entry has
\* the output-enable marker 0), every later set_opp(f) is refused without
\* a register write (it returns -1, or 0 as a no-op when f is the current
\* operating point), and no step programs PLL1 or enables its outputs from
\* an entry whose output-enable marker is 0.
C22_FailedOppIsRefused ==
    /\ [](opp_ev.op = "set_opp" /\ ZeroMarkerEntry(opp_ev.freq)
             => /\ ~opp_ev.tried
                /\ opp_ev.writes = NoWrites
                /\ opp_ev.ret = IF opp_ev.freq = current_opp_khz
                                THEN "0" ELSE "-1")
    /\ [][(Pll1ProgrammedByStep \/ Pll1OutputByStep)
              => /\ opp_idx < PLAT_MAX_OPP_NB
                 /\ pll1_settings.cfg[opp_idx].O # 0]_vars

C22_Witness ==
    /\ opp_ev.op = "set_opp"
    /\ opp_ev.freq = 1000000
    /\ ZeroMarkerEntry(1000000)
    /\ opp_ev.ret = "-1"
    /\ pll1_settings.freq[1] = 1000000
    /\ ~stm32mp1_clk_pll1_settings_are_valid(pll1_settings)


(***************************************************************************)
(* Write order of pll_config                                               *)
(***************************************************************************)
Pll1ConfigRegisters ==
    { "RCC_PLL1CFGR1", "RCC_PLL1FRACR", "RCC_PLL1CFGR2" }

IsPll1ConfigWrite(w) ==
    w.reg \in Pll1ConfigRegisters

\* writes of the step to the divider and fractional registers of PLL1
Pll1ConfigWrites ==
    SelectSeq(opp_ev'.writes, IsPll1ConfigWrite)

\* the write sets RCC_PLLNFRACR_FRACLE
WritesFracle(w) ==
    /\ w.reg = "RCC_PLL1FRACR"
    /\ (w.val \div RCC_PLLNFRACR_FRACLE) % 2 = 1

\* C23: program(pll, config, frac) writes the primary divider register,
\* then the fractional register with the raw value and the enable flag off,
\* then the fractional register with the flag set, then the output
\* dividers; no write sets the flag together with a fractional value other
\* than the requested one.
C23_ProgramWriteOrder ==
    [][LET fracv == pll1_settings.frac[opp_idx]
           raw == fracv * (2 ^ RCC_PLLNFRACR_FRACV_SHIFT)
           w == Pll1ConfigWrites
       IN  w # << >>
               => /\ Len(w) = 4
                  /\ w[1].reg = "RCC_PLL1CFGR1"
                  /\ w[2] = WReg("RCC_PLL1FRACR", raw)
                  /\ w[3] = WReg("RCC_PLL1FRACR", raw + RCC_PLLNFRACR_FRACLE)
                  /\ w[4].reg = "RCC_PLL1CFGR2"
                  /\ \A k \in 1..Len(w) :
                         WritesFracle(w[k])
                             => Field(w[k].val, RCC_PLLNFRACR_FRACV_SHIFT,
                                      RCC_PLLNFRACR_FRACV_WIDTH) = fracv]_vars

\* the flag alone: no write of a step sets RCC_PLLNFRACR_FRACLE together
\* with a fractional value other than the one of the slot being programmed
FracleOnlyWithRequestedValue ==
    [][\A k \in 1..Len(Pll1ConfigWrites) :
           WritesFracle(Pll1ConfigWrites[k])
               => Field(Pll1ConfigWrites[k].val, RCC_PLLNFRACR_FRACV_SHIFT,
                        RCC_PLLNFRACR_FRACV_WIDTH)
                      = pll1_settings.frac[opp_idx]]_vars


(***************************************************************************)
(* pll_stop                                                                *)
(***************************************************************************)
\* the step made the two writes of pll_stop, in this order, as its last
\* writes
PllStopWritesInOrder ==
    LET w == opp_ev'.writes IN
    /\ Len(w) >= 2
    /\ w[Len(w) - 1] = WBits("RCC_PLL1CR", PllOutputBits, {})
    /\ w[Len(w)] = WBits("RCC_PLL1CR", { "PLLON" }, {})
    /\ pll1cr' \cap (PllOutputBits \cup { "PLLON" }) = {}

\* pll_stop returned 0 in this step: pll_config and pll_start went on
PllStopSucceeds ==
    /\ opp_pc = "stop_rdy"
    /\ opp_pc' = "lock_rdy"

\* C24: stop(pll) clears the three output-enable bits, then the PLL enable
\* bit, and returns success only after the ready bit was observed clear; a
\* stop that does not return success ends in the timeout failure.
C24_StopWaitsForReadyClear ==
    [][/\ opp_pc' = "stop_rdy" => PllStopWritesInOrder
       /\ PllStopSucceeds => "PLLRDY" \notin pll1cr
       /\ (opp_pc = "stop_rdy" /\ ~PllStopSucceeds /\ opp_pc' # "stop_rdy")
              => opp_hist'.timeout]_vars


(***************************************************************************)
(* Stop mode: stm32mp1_clk_save_context_for_stop saves the control         *)
(* registers of PLL3 and PLL4 and the MCU clock tree,                      *)
(* stm32mp1_clk_restore_context_for_stop restarts the PLLs that were on.   *)
(* rate_regs.pll[p].cr is RCC_PLLxCR as the set of its bits reading 1.     *)
(***************************************************************************)
\* RCC_PLL3CR and RCC_PLL4CR at the time of the save
PllCrProfiles ==
    { {},
      { "PLLON", "PLLRDY" },
      { "PLLON", "PLLRDY", "DIVPEN" },
      { "PLLON", "PLLRDY", "DIVQEN", "DIVREN" },
      { "PLLON", "PLLRDY", "DIVPEN", "DIVQEN", "DIVREN" } }

\* ctx->pllNcr >> RCC_PLLNCR_DIVEN_SHIFT, as far as pll_output shifts it back
cr_output_mask(cr) ==
    PQR(IF "DIVPEN" \in cr THEN 1 ELSE 0,
        IF "DIVQEN" \in cr THEN 1 ELSE 0,
        IF "DIVREN" \in cr THEN 1 ELSE 0)

\* variant: the register is written, not or-ed
pll_output_value_written(cr, output) ==
    pll_output_bits(output)

\* RCC_PLLxCR after the io_setbits32 of pll_output
pll_output_value(cr, output) ==
    cr \cup pll_output_bits(output)

StopLabel(op, pll, output, ret, before, after) ==
    [op |-> op, pll |-> pll, output |-> output, ret |-> ret,
     before |-> before, after |-> after]

\* the writes of restore_mcu_subsys_clocks up to the poll of RCC_MCUDIVR
restore_mcu_subsys_clocks_writes(regs) ==
    [regs EXCEPT !.RCC_MSSCKSELR = soc_stop_ctx.mssckselr,
                 !.RCC_MCUDIVR =
                     ((regs.RCC_MCUDIVR \div (RCC_DIVR_DIV_MASK + 1))
                          * (RCC_DIVR_DIV_MASK + 1))
                     + (soc_stop_ctx.mcudivr % (RCC_DIVR_DIV_MASK + 1))]

\* restore_pll34_state goes on after stage ("entry", "out3", "out4") to the
\* next poll: of pll_output for PLL3, for PLL4, or of stm32mp1_set_clkdiv
StopNextPc(stage) ==
    IF stage = "entry" /\ "PLLON" \in soc_stop_ctx.pll3cr
    THEN "out3"
    ELSE IF stage \in { "entry", "out3" } /\ "PLLON" \in soc_stop_ctx.pll4cr
    THEN "out4"
    ELSE "mcudiv"

\* registers written on the way from stage to the next poll
StopWritesOn(stage) ==
    IF StopNextPc(stage) = "mcudiv"
    THEN << "RCC_MSSCKSELR", "RCC_MCUDIVR" >>
    ELSE << >>

StopGoesOn(stage, regs) ==
    /\ stop_pc' = StopNextPc(stage)
    /\ rate_regs' = IF StopNextPc(stage) = "mcudiv"
                    THEN restore_mcu_subsys_clocks_writes(regs)
                    ELSE regs

stm32mp1_clk_save_context_for_stop ==
    /\ ~panicked
    /\ UNCHANGED svcVars
    /\ stop_pc = "run"
    /\ soc_stop_ctx' =
           [pll3cr |-> rate_regs.pll["_PLL3"].cr,
            pll4cr |-> rate_regs.pll["_PLL4"].cr,
            mssckselr |-> rate_regs.RCC_MSSCKSELR,
            mcudivr |-> rate_regs.RCC_MCUDIVR % (RCC_MCUDIV_MASK + 1)]
    /\ rcc_ocenr' = enable_kernel_clocks(rcc_ocenr)
    /\ lp_writes' = << "RCC_OCENSETR" >>
    /\ stop_pc' = "stopped"
    /\ stop_ev' = StopLabel("save", "none", 0, "0", {}, {})
    /\ UNCHANGED << gateVars, oppVars, rateVars, backup_clock_sc_cfg,
                    suspended, lp_data, lp_ev, pll1_search >>

\* the SoC goes through the stop mode: the PLLs of lost come back off
soc_stop_mode(lost) ==
    /\ ~panicked
    /\ stop_pc = "stopped"
    /\ rate_regs' = [rate_regs EXCEPT
                        !.pll = [p \in DOMAIN rate_regs.pll |->
                                    IF p \in lost
                                    THEN [rate_regs.pll[p] EXCEPT !.cr = {}]
                                    ELSE rate_regs.pll[p]]]
    /\ stop_pc' = "wake"
    /\ stop_ev' = StopLabel("stop", "none", 0, "none", {}, {})
    /\ UNCHANGED << gateVars, oppVars, rate_ev, backup_clock_sc_cfg,
                    suspended, lp_data, lp_ev, pll1_search, soc_stop_ctx,
                    kerVars >>

\* the PLL reaches its lock
pll_locks(pll) ==
    /\ ~panicked
    /\ stop_pc \in { "out3", "out4" }
    /\ "PLLON" \in rate_regs.pll[pll].cr
    /\ "PLLRDY" \notin rate_regs.pll[pll].cr
    /\ rate_regs' = [rate_regs EXCEPT !.pll[pll].cr = @ \cup { "PLLRDY" }]
    /\ stop_ev' = StopLabel("lock", pll, 0, "none", rate_regs.pll[pll].cr,
                            rate_regs.pll[pll].cr \cup { "PLLRDY" })
    /\ UNCHANGED << gateVars, oppVars, rate_ev, backup_clock_sc_cfg,
                    suspended, lp_data, lp_ev, pll1_search, soc_stop_ctx,
                    stop_pc, kerVars >>

\* stm32mp1_clk_restore_context_for_stop up to its first poll
stm32mp1_clk_restore_context_for_stop ==
    /\ ~panicked
    /\ UNCHANGED svcVars
    /\ stop_pc = "wake"
    /\ LET on4 == "PLLON" \in soc_stop_ctx.pll4cr
           on3 == "PLLON" \in soc_stop_ctx.pll3cr
           started ==
               [rate_regs EXCEPT
                   !.pll["_PLL4"].cr = IF on4 THEN pll_start_value(@) ELSE @,
                   !.pll["_PLL3"].cr = IF on3 THEN pll_start_value(@) ELSE @]
       IN  StopGoesOn("entry", started)
    /\ lp_writes' = pll34_start_writes(soc_stop_ctx, rate_regs)
                        \o StopWritesOn("entry")
    /\ stop_ev' = StopLabel("restore", "none", 0, "pending", {}, {})
    /\ UNCHANGED << gateVars, oppVars, rate_ev, backup_clock_sc_cfg,
                    suspended, lp_data, lp_ev, pll1_search, soc_stop_ctx,
                    rcc_ocenr >>

\* pll_output(_PLL3 or _PLL4, ctx->pllNcr >> RCC_PLLNCR_DIVEN_SHIFT): the
\* wait for PLLRDY, then the write of the output enables; a failure is a
\* panic of restore_pll34_state
pll_output_restore_poll ==
    /\ ~panicked
    /\ UNCHANGED svcVars
    /\ stop_pc \in { "out3", "out4" }
    /\ LET pll == IF stop_pc = "out3" THEN "_PLL3" ELSE "_PLL4"
           cr == rate_regs.pll[pll].cr
           output == cr_output_mask(IF stop_pc = "out3"
                                    THEN soc_stop_ctx.pll3cr
                                    ELSE soc_stop_ctx.pll4cr)
       IN  IF "PLLRDY" \in cr
           THEN /\ StopGoesOn(stop_pc,
                       [rate_regs EXCEPT
                           !.pll[pll].cr = pll_output_value(cr, output)])
                /\ stop_ev' = StopLabel("pll_output", pll, output, "0", cr,
                                        pll_output_value(cr, output))
                /\ lp_writes' = lp_writes
                       \o << IF stop_pc = "out3" THEN "RCC_PLL3CR"
                                                 ELSE "RCC_PLL4CR" >>
                       \o StopWritesOn(stop_pc)
                /\ UNCHANGED panicked
           ELSE /\ stop_pc' = "panic"
                /\ panicked' = TRUE
                /\ stop_ev' = StopLabel("pll_output", pll, output, "-1", cr, cr)
                /\ UNCHANGED << rate_regs, lp_writes >>
    /\ UNCHANGED << rcc_secure, rcc_en, boot_en, gate_refcounts, refcount_lock,
                    calls, pc, arg, tmp, ev >>
    /\ UNCHANGED << oppVars, rate_ev, backup_clock_sc_cfg, suspended, lp_data,
                    lp_ev, pll1_search, soc_stop_ctx, rcc_ocenr >>

\* poll of stm32mp1_set_clkdiv in restore_mcu_subsys_clocks
restore_mcu_subsys_clocks_poll ==
    /\ ~panicked
    /\ UNCHANGED svcVars
    /\ stop_pc = "mcudiv"
    /\ \/ /\ stop_pc' = "run"
          /\ stop_ev' = StopLabel("restore", "none", 0, "0", {}, {})
          /\ rcc_ocenr' = disable_kernel_clocks(rcc_ocenr)
          /\ lp_writes' = Append(lp_writes, "RCC_OCENCLRR")
          /\ UNCHANGED panicked
       \/ /\ stop_pc' = "panic"
          /\ panicked' = TRUE
          /\ stop_ev' = StopLabel("restore", "none", 0, "panic", {}, {})
          /\ UNCHANGED kerVars
    /\ UNCHANGED << rcc_secure, rcc_en, boot_en, gate_refcounts, refcount_lock,
                    calls, pc, arg, tmp, ev >>
    /\ UNCHANGED << oppVars, rateVars, backup_clock_sc_cfg, suspended, lp_data,
                    lp_ev, pll1_search, soc_stop_ctx >>

InitStop ==
    /\ GateBoot(TRUE, NoBits)
    /\ OppBoot(Pll1At650MHz)
    /\ \E bus \in BusProfiles, cr3 \in PllCrProfiles, cr4 \in PllCrProfiles :
           RateBoot([RateRegs(bus, 0, 0, 0, 0) EXCEPT
                        !.pll["_PLL3"].cr = cr3, !.pll["_PLL4"].cr = cr4])
    /\ \E ocenr \in OcenrProfiles : PmBootWith(ocenr)

NextStop ==
    \/ stm32mp1_clk_save_context_for_stop
    \/ \E lost \in SUBSET { "_PLL3", "_PLL4" } : soc_stop_mode(lost)
    \/ \E pll \in { "_PLL3", "_PLL4" } : pll_locks(pll)
    \/ stm32mp1_clk_restore_context_for_stop
    \/ pll_output_restore_poll
    \/ restore_mcu_subsys_clocks_poll

SpecStop == InitStop /\ [][NextStop]_vars

\* a step set an output-enable bit of RCC_PLL3CR or RCC_PLL4CR
SetsOutputBit(pll) ==
    (rate_regs'.pll[pll].cr \cap PllOutputBits)
        \ rate_regs.pll[pll].cr # {}

\* C25: enable_output(pll, mask) sets output-enable bits only after the
\* ready bit was observed set; without the ready bit it returns failure at
\* the timeout, once, having set no bit; on success exactly the bits of the
\* mask are added and the bits already set are kept.
C25_OutputAfterReady ==
    /\ [][\A pll \in { "_PLL3", "_PLL4" } :
             SetsOutputBit(pll)
                 => /\ stop_ev'.op = "pll_output"
                    /\ stop_ev'.pll = pll
                    /\ stop_ev'.ret = "0"
                    /\ "PLLRDY" \in rate_regs.pll[pll].cr]_vars
    /\ [](stop_ev.op = "pll_output" /\ stop_ev.ret = "0"
             => /\ "PLLRDY" \in stop_ev.before
                /\ stop_ev.after
                       = stop_ev.before \cup pll_output_bits(stop_ev.output)
                /\ rate_regs.pll[stop_ev.pll].cr = stop_ev.after)
    /\ [](stop_ev.op = "pll_output" /\ stop_ev.ret = "-1"
             => /\ "PLLRDY" \notin stop_ev.before
                /\ stop_ev.after = stop_ev.before
                /\ rate_regs.pll[stop_ev.pll].cr = stop_ev.before
                /\ stop_pc = "panic")

C25_Witness ==
    /\ stop_ev.op = "pll_output"
    /\ stop_ev.ret = "0"
    /\ stop_ev.output = 6
    /\ stop_ev.before = { "PLLON", "PLLRDY" }
    /\ stop_ev.after = { "PLLON", "PLLRDY", "DIVQEN", "DIVREN" }

C25_WitnessTimeout ==
    /\ stop_ev.op = "pll_output"
    /\ stop_ev.ret = "-1"
    /\ stop_ev.output = 1
    /\ stop_ev.before = { "PLLON" }


(***************************************************************************)
(* Reconfiguration of PLL1 while it runs                                   *)
(***************************************************************************)
\* pll1_config_from_opp_khz is about to run is_pll_config_on_the_fly: the
\* frequency has a slot and the MPU divider cannot reach it
ReachesOnTheFlyCheck ==
    /\ opp_pc = "config"
    /\ opp_idx < PLAT_MAX_OPP_NB
    /\ stm32mp1_get_mpu_div(opp_target,
           stm32mp1_read_pll_freq(rck12selr, pll1cfgr1, pll1cfgr2,
                                  pll1fracr)) = -1

\* DIVM and DIVN of the slot are the ones in RCC_PLL1CFGR1
SlotHasLiveMN ==
    LET pllcfg == pll1_settings.cfg[opp_idx] IN
    /\ Field(pll1cfgr1, RCC_PLLNCFGR1_DIVM_SHIFT, RCC_PLLNCFGR1_DIVM_WIDTH)
           = pllcfg.M
    /\ pll1cfgr1 % (RCC_PLLNCFGR1_DIVN_MASK + 1) = pllcfg.N

\* output dividers and fractional value of the slot are the live ones
SlotHasLiveOutputs ==
    /\ pll1cfgr2 = pll_compute_pllxcfgr2(pll1_settings.cfg[opp_idx])
    /\ Field(pll1fracr, RCC_PLLNFRACR_FRACV_SHIFT, RCC_PLLNFRACR_FRACV_WIDTH)
           = pll1_settings.frac[opp_idx]
    /\ (pll1fracr \div RCC_PLLNFRACR_FRACLE) % 2 = 1

\* C26: when the live-reconfiguration check finds the same M/N with other
\* output dividers or another fractional value, PLL1 is reprogrammed in
\* place: the step writes only the divider and fractional registers, not
\* the CPU mux and not RCC_PLL1CR (enable and output-enable bits keep their
\* values); when it finds identical parameters, no register is written.
C26_OnTheFlyFrame ==
    [][(ReachesOnTheFlyCheck /\ SlotHasLiveMN)
          => IF SlotHasLiveOutputs
             THEN /\ opp_ev'.writes = NoWrites
                  /\ UNCHANGED oppRegs
             ELSE /\ opp_ev'.writes # NoWrites
                  /\ \A k \in 1..Len(opp_ev'.writes) :
                         opp_ev'.writes[k].reg \in Pll1ConfigRegisters
                  /\ UNCHANGED << mpckselr, mpckdivr, pll1cr, rck12selr >>
                  /\ pll1cfgr1' = pll1cfgr1
                  /\ pll1cfgr2'
                         = pll_compute_pllxcfgr2(pll1_settings.cfg[opp_idx])
                  /\ pll1fracr'
                         = (pll1_settings.frac[opp_idx]
                                * (2 ^ RCC_PLLNFRACR_FRACV_SHIFT))
                           + RCC_PLLNFRACR_FRACLE]_vars

C26_Witness ==
    /\ opp_ev.op = "set_opp"
    /\ opp_ev.freq = 651000
    /\ opp_ev.ret = "0"
    /\ current_opp_khz = 651000
    /\ opp_ev.writes # NoWrites
    /\ \A k \in 1..Len(opp_ev.writes) :
           opp_ev.writes[k].reg \in Pll1ConfigRegisters
    /\ { "PLLON", "DIVPEN" } \subseteq pll1cr
    /\ mpckselr.src = RCC_MPCKSELR_PLL


(***************************************************************************)
(* Operating points reached through the MPU divider                        *)
(***************************************************************************)
\* rate of the P output of PLL1 read from the registers
Pll1PRate ==
    stm32mp1_read_pll_freq(rck12selr, pll1cfgr1, pll1cfgr2, pll1fracr)

\* the frequency being configured has a slot and divides the P rate of
\* PLL1, in kHz, by 1, 2, 4, 8 or 16
FastPathCase ==
    /\ opp_idx < PLAT_MAX_OPP_NB
    /\ opp_target # 0
    /\ (Pll1PRate \div 1000) % opp_target = 0
    /\ ((Pll1PRate \div 1000) \div opp_target) \in { 1, 2, 4, 8, 16 }

FastPathQuotient ==
    (Pll1PRate \div 1000) \div opp_target

Log2Of(d) ==
    CHOOSE k \in 0..4 : 2 ^ k = d

\* rate of the CPU clock read from the registers after the step
CpuRateAfterStep ==
    clk_get_parent_rate_CK_MPU(mpckselr'.src, mpckdivr'.mpudiv, rck12selr',
                               pll1cfgr1', pll1cfgr2', pll1fracr')

\* C27: when the frequency to configure is in the table and divides the
\* PLL1 P rate with quotient d in {1, 2, 4, 8, 16}, no PLL1 register is
\* written; d = 1 writes the CPU mux (PLL1 P) only, d > 1 writes the MPU
\* divider field log2(d) and then the CPU mux (PLL1 P through the divider);
\* when the path succeeds the CPU rate is the P rate divided by d.
C27_FastPathFrame ==
    [][/\ (opp_pc = "config" /\ FastPathCase)
            => /\ UNCHANGED << pll1cr, pll1cfgr1, pll1cfgr2, pll1fracr,
                               rck12selr >>
               /\ opp_ev'.writes
                      = IF FastPathQuotient = 1
                        THEN << WReg("RCC_MPCKSELR", RCC_MPCKSELR_PLL) >>
                        ELSE << WReg("RCC_MPCKDIVR",
                                     Log2Of(FastPathQuotient)) >>
               /\ opp_pc' = IF FastPathQuotient = 1
                            THEN "fast_src" ELSE "fast_div"
       /\ opp_pc = "fast_div"
            => /\ FastPathCase
               /\ UNCHANGED << pll1cr, pll1cfgr1, pll1cfgr2, pll1fracr,
                               rck12selr >>
               /\ opp_ev'.writes
                      \in { NoWrites,
                            << WReg("RCC_MPCKSELR",
                                    RCC_MPCKSELR_PLL_MPUDIV) >> }
       /\ opp_pc = "fast_src"
            => /\ FastPathCase
               /\ UNCHANGED << pll1cr, pll1cfgr1, pll1cfgr2, pll1fracr,
                               rck12selr, mpckdivr >>
               /\ opp_ev'.writes = NoWrites
               /\ (mpckselr'.srcrdy /\ ~opp_hist'.timeout)
                      => CpuRateAfterStep = Pll1PRate \div FastPathQuotient]_vars

C27_Witness ==
    /\ opp_ev.op = "set_opp"
    /\ opp_ev.freq = 162500
    /\ opp_ev.ret = "0"
    /\ current_opp_khz = 162500
    /\ mpckdivr.mpudiv = 2
    /\ mpckselr = [src |-> RCC_MPCKSELR_PLL_MPUDIV, srcrdy |-> TRUE]
    /\ clk_get_parent_rate_CK_MPU(mpckselr.src, mpckdivr.mpudiv, rck12selr,
                                  pll1cfgr1, pll1cfgr2, pll1fracr)
           = 162500000


(***************************************************************************)
(* stm32mp1_pll_get_fvco applied to the registers of a PLL                 *)
(***************************************************************************)
\* DIVM, DIVN, FRACLE and FRACV as stm32mp1_pll_get_fvco extracts them
PllFields(cfgr1, fracr) ==
    [divm |-> Field(cfgr1, RCC_PLLNCFGR1_DIVM_SHIFT, RCC_PLLNCFGR1_DIVM_WIDTH),
     divn |-> cfgr1 % (RCC_PLLNCFGR1_DIVN_MASK + 1),
     fracle |-> (fracr \div RCC_PLLNFRACR_FRACLE) % 2 = 1,
     fracv |-> Field(fracr, RCC_PLLNFRACR_FRACV_SHIFT,
                     RCC_PLLNFRACR_FRACV_WIDTH)]

\* reference clock of a PLL: stm32mp1_pll_get_fref
PllRefclk(pll_id) ==
    osc_frequency(stm32mp1_clk_pll_refclk[pll_id]
                      [(PllRegs(pll_id).selr % (RCC_SELR_REFCLK_SRC_MASK + 1)) + 1])

\* register contents tried for PLL3: reference source, DIVM, DIVN, FRACV
FvcoSources == 0..2
FvcoDivm == { 0, 1, 2, 3, 7, 63 }
FvcoDivn == { 24, 49, 80, 99, 199 }
FvcoFracv == { 0, 2048, 8191 }

stm32mp1_pll_get_fvco_call(pll_id) ==
    /\ ~panicked
    /\ LET f == PllFields(PllRegs(pll_id).cfgr1, PllRegs(pll_id).fracr) IN
       rate_ev' = [op |-> "get_fvco", id |-> pll_id, parent |-> "none",
                   rate |-> pll_get_fvco_words(PllRefclk(pll_id), f.divm,
                                               f.divn, f.fracle, f.fracv)]
    /\ UNCHANGED << gateVars, oppVars, rate_regs, pmVars >>

InitFvco ==
    /\ GateBoot(TRUE, NoBits)
    /\ OppBoot(Pll1At650MHz)
    /\ \E selr \in FvcoSources, divm \in FvcoDivm, divn \in FvcoDivn,
          fracv \in FvcoFracv, fracle \in BOOLEAN :
           RateBoot([RateRegsReset EXCEPT
               !.pll["_PLL3"] =
                   [selr |-> selr,
                    cfgr1 |-> divn + (divm * (2 ^ RCC_PLLNCFGR1_DIVM_SHIFT)),
                    cfgr2 |-> 0,
                    fracr |-> (fracv * (2 ^ RCC_PLLNFRACR_FRACV_SHIFT))
                              + (IF fracle THEN RCC_PLLNFRACR_FRACLE ELSE 0),
                    cr |-> { "PLLON", "PLLRDY", "DIVPEN" }]])
    /\ PmBoot

NextFvco ==
    \E pll_id \in { "_PLL3", "_PLL4" } : stm32mp1_pll_get_fvco_call(pll_id)

SpecFvco == InitFvco /\ [][NextFvco]_vars

\* floor(refclk * ((divn + 1) * 2^13 + fracv) / ((divm + 1) * 2^13)) with
\* FRACLE, floor(refclk * (divn + 1) / (divm + 1)) without, as the pair
\* << v \div 2^16, v % 2^16 >>
ExactFvcoWords(refclk, divm, divn, fracle, fracv) ==
    LET qr == IF fracle
              THEN MulQR(refclk, ((divn + 1) * (2 ^ 13)) + fracv,
                         (2 ^ 13) * HalfWord)
              ELSE MulQR(refclk, divn + 1, HalfWord)
        hi == qr[1]
        lo == IF fracle THEN qr[2] \div (2 ^ 13) ELSE qr[2]
        den == divm + 1
    IN  << hi \div den, (((hi % den) * HalfWord) + lo) \div den >>

\* C28: get_fvco returns exactly floor(refclk * ((divn+1) * 2^13 + frac) /
\* ((divm+1) * 2^13)) with the fractional enable flag and exactly
\* floor(refclk * (divn+1) / (divm+1)) without it, the product not being
\* cut to 32 bits; 25 MHz, divm 1, divn 49 without fraction gives 625 MHz.
C28_FvcoExact ==
    /\ pll_get_fvco_words(25000000, 1, 49, FALSE, 0) = << 9536, 48704 >>
    /\ rate_ev.op = "get_fvco"
           => LET f == PllFields(PllRegs(rate_ev.id).cfgr1,
                                 PllRegs(rate_ev.id).fracr)
              IN  rate_ev.rate = ExactFvcoWords(PllRefclk(rate_ev.id), f.divm,
                                                f.divn, f.fracle, f.fracv)

\* the same for the fractional branch alone, where the exact value fits 32 bits
FvcoExactWithFracle ==
    rate_ev.op = "get_fvco"
        => LET f == PllFields(PllRegs(rate_ev.id).cfgr1,
                              PllRegs(rate_ev.id).fracr)
               exact == ExactFvcoWords(PllRefclk(rate_ev.id), f.divm, f.divn,
                                       f.fracle, f.fracv)
           IN  (f.fracle /\ exact[1] < HalfWord) => rate_ev.rate = exact

\* HSI at 64 MHz, DIVM = 7, DIVN = 80, no fraction: 111129088 Hz is returned
\* where the ratio is 648000000 Hz
FvcoProductTruncated ==
    /\ rate_ev.op = "get_fvco"
    /\ rate_ev.id = "_PLL3"
    /\ PllRefclk("_PLL3") = 64000000
    /\ PllFields(PllRegs("_PLL3").cfgr1, PllRegs("_PLL3").fracr)
           = [divm |-> 7, divn |-> 80, fracle |-> FALSE, fracv |-> 0]
    /\ WordsValue(rate_ev.rate) = 111129088
    /\ WordsValue(ExactFvcoWords(64000000, 7, 80, FALSE, 0)) = 648000000


(***************************************************************************)
(* C29: what __clk_get_parent returns                                      *)
(***************************************************************************)
\* enum stm32mp1_parent_id: the identifiers below _PARENT_NB
stm32mp1_parent_id ==
    { "_HSI", "_HSE", "_CSI", "_LSI", "_LSE", "_I2S_CKIN", "_USB_PHY_48",
      "_HSI_KER", "_HSE_KER", "_HSE_KER_DIV2", "_CSI_KER",
      "_PLL1_P", "_PLL1_Q", "_PLL1_R", "_PLL2_P", "_PLL2_Q", "_PLL2_R",
      "_PLL3_P", "_PLL3_Q", "_PLL3_R", "_PLL4_P", "_PLL4_Q", "_PLL4_R",
      "_ACLK", "_PCLK1", "_PCLK2", "_PCLK3", "_PCLK4", "_PCLK5",
      "_HCLK6", "_HCLK2", "_CK_PER", "_CK_MPU", "_CK_MCU" }

\* the clock of the last call has a selector and the field read from its
\* register is past the end of the selector's list of parents
MuxOutOfList ==
    /\ rate_ev.op = "get_rate"
    /\ rate_ev.id \in DOMAIN gate_parent
    /\ clock_id2parent_id(rate_ev.id) = "_UNKNOWN_ID"
    /\ gate_parent[rate_ev.id].fixed = "_UNKNOWN_ID"
    /\ gate_parent[rate_ev.id].sel # "_UNKNOWN_SEL"
    /\ LET sel == stm32mp1_clk_sel[gate_parent[rate_ev.id].sel] IN
       (rate_regs[sel.offset] % (sel.msk + 1)) >= Len(sel.parent)

\* C29: for every clock identifier and every value of the selector
\* registers, __clk_get_parent returns -1 (no parent) or a parent
\* identifier below _PARENT_NB; a selector field past the end of the list
\* of parents gives -1, and clk_stm32_get_rate then returns 0.
C29_ParentIsNoneOrDefined ==
    /\ rate_ev.op = "get_rate"
           => rate_ev.parent \in (stm32mp1_parent_id \cup { "-1" })
    /\ MuxOutOfList => (rate_ev.parent = "-1" /\ rate_ev.rate = 0)

\* the second half of C29 alone: a field past the end of the list gives -1
\* and a rate of 0
MuxOutOfListIsNone ==
    MuxOutOfList => (rate_ev.parent = "-1" /\ rate_ev.rate = 0)

\* a call where the selector field is past the end of the list
MuxOutOfListReached ==
    MuxOutOfList /\ rate_ev.id = USART1_K

\* the RTC clock asked about while the field read from RCC_BDCR is 0: the
\* first entry of rtc_parents[] is returned, which is _UNKNOWN_ID (0xff)
RtcParentIsUnknownId ==
    /\ rate_ev.op = "get_rate"
    /\ rate_ev.id = RTC
    /\ rate_regs.RCC_BDCR % 4 = 0
    /\ rate_ev.parent = "_UNKNOWN_ID"

\* apart from the RTC clock, every answer is -1 or below _PARENT_NB
ParentDefinedExceptRtc ==
    (rate_ev.op = "get_rate" /\ rate_ev.id # RTC)
        => rate_ev.parent \in (stm32mp1_parent_id \cup { "-1" })

\* whatever the parent returned for the RTC clock with a field of 0, the
\* rate is 0
RtcNoClockRateIsZero ==
    RtcParentIsUnknownId => rate_ev.rate = 0


(***************************************************************************)
(* C30: rate of the timer kernel clocks                                    *)
(***************************************************************************)
\* APB bus of a timer clock identifier, by the ranges clk_stm32_get_rate
\* tests; 0 for the other identifiers
TimerBus(id) ==
    IF id >= TIM2_K /\ id <= TIM14_K THEN 1
    ELSE IF id >= TIM1_K /\ id <= TIM17_K THEN 2
    ELSE 0

\* APBxDIV field of the bus
ApbDivField(bus) ==
    (IF bus = 1 THEN rate_regs.RCC_APB1DIVR ELSE rate_regs.RCC_APB2DIVR)
        % (RCC_APBXDIV_MASK + 1)

\* TIMGxPRE bit of the bus
TimgPreField(bus) ==
    (IF bus = 1 THEN rate_regs.RCC_TIMG1PRER ELSE rate_regs.RCC_TIMG2PRER)
        % (RCC_TIMGXPRER_TIMGXPRE + 1)

\* the last call returned a rate computed from a parent
RateFromParent ==
    /\ rate_ev.op = "get_rate"
    /\ rate_ev.parent \in stm32mp1_parent_id

\* C30 (as stated): a timer clock gets the rate of its APB parent times
\* (TIMGxPRE + 1) * 2 when the timer prescaler of its bus is engaged (the
\* TIMGxPRE bit is set) and the rate of its parent otherwise; any other
\* clock gets the rate of its parent.
C30_TimerRateByTimerPrescaler ==
    RateFromParent =>
        LET bus == TimerBus(rate_ev.id)
            parent_rate == clk_get_parent_rate(rate_ev.parent)
        IN  rate_ev.rate =
                IF bus # 0 /\ TimgPreField(bus) # 0
                THEN parent_rate * (TimgPreField(bus) + 1) * 2
                ELSE parent_rate

\* C30 (amended): a timer clock gets the rate of its APB parent times
\* (TIMGxPRE + 1) * 2 when the APBxDIV field of its bus is not 0 (the bus
\* clock is divided) and the rate of its parent when the field is 0,
\* whatever the TIMGxPRE bit; any other clock gets the rate of its parent.
C30_TimerRateByBusDivider ==
    RateFromParent =>
        LET bus == TimerBus(rate_ev.id)
            parent_rate == clk_get_parent_rate(rate_ev.parent)
        IN  /\ bus = 1 => rate_ev.parent = "_PCLK1"
            /\ bus = 2 => rate_ev.parent = "_PCLK2"
            /\ rate_ev.rate =
                   IF bus # 0 /\ ApbDivField(bus) # 0
                   THEN parent_rate * (TimgPreField(bus) + 1) * 2
                   ELSE parent_rate

\* a timer on a divided bus with the TIMGxPRE bit clear: its rate is twice
\* the rate of the bus
C30_Witness ==
    /\ RateFromParent
    /\ rate_ev.id = TIM12_K
    /\ ApbDivField(1) # 0
    /\ TimgPreField(1) = 0
    /\ rate_ev.rate > 0
    /\ rate_ev.rate = 2 * clk_get_parent_rate("_PCLK1")

\* a timer on an undivided bus with the TIMGxPRE bit set: the rate of the
\* bus, unmodified
TimerUndividedBusPrescalerSet ==
    /\ RateFromParent
    /\ rate_ev.id = TIM12_K
    /\ ApbDivField(1) = 0
    /\ TimgPreField(1) = 1
    /\ rate_ev.rate > 0
    /\ rate_ev.rate = clk_get_parent_rate("_PCLK1")

\* a timer on a divided bus with the TIMGxPRE bit set: four times the rate
\* of the bus
TimerDividedBusPrescalerSet ==
    /\ RateFromParent
    /\ rate_ev.id = TIM15_K
    /\ ApbDivField(2) # 0
    /\ TimgPreField(2) = 1
    /\ rate_ev.rate > 0
    /\ rate_ev.rate = 4 * clk_get_parent_rate("_PCLK2")


(***************************************************************************)
(* C31: the kernel clocks of the oscillators around the two low power      *)
(* paths, stm32_clock_suspend / stm32_clock_resume and                     *)
(* stm32mp1_clk_save_context_for_stop / _restore_context_for_stop          *)
(***************************************************************************)
\* one path at a time: the stop path starts from the running system, the
\* suspend from a system that is not inside the stop path
InitLowPower ==
    /\ \E secure \in BOOLEAN : GateBoot(secure, NoBits)
    /\ OppBoot(Pll1At650MHz)
    /\ \E cr3 \in PllCrProfiles, cr4 \in PllCrProfiles :
           RateBoot([RateRegsReset EXCEPT
                        !.pll["_PLL3"].cr = cr3, !.pll["_PLL4"].cr = cr4])
    /\ \E ocenr \in OcenrProfiles : PmBootWith(ocenr)

NextLowPower ==
    \/ stop_pc = "run" /\ stm32_clock_suspend
    \/ rcc_context_lost
    \/ stm32_clock_resume
    \/ ~suspended /\ stm32mp1_clk_save_context_for_stop
    \/ \E lost \in SUBSET { "_PLL3", "_PLL4" } : soc_stop_mode(lost)
    \/ \E pll \in { "_PLL3", "_PLL4" } : pll_locks(pll)
    \/ stm32mp1_clk_restore_context_for_stop
    \/ pll_output_restore_poll
    \/ restore_mcu_subsys_clocks_poll

SpecLowPower == InitLowPower /\ [][NextLowPower]_vars

\* elements of a sequence
Range(seq) ==
    { seq[k] : k \in 1..Len(seq) }

\* the step is a save step: stm32_clock_suspend or
\* stm32mp1_clk_save_context_for_stop
SaveStep ==
    \/ ev'.op = "suspend" /\ ev.op # "suspend"
    \/ stop_ev'.op = "save" /\ stop_ev.op # "save"

\* the step completes a restore: stm32_clock_resume returns, or
\* stm32mp1_clk_restore_context_for_stop does
RestoreCompletes ==
    \/ ev'.op = "resume" /\ suspended /\ ~suspended'
    \/ stop_pc = "mcudiv" /\ stop_pc' = "run"

\* the log holds what the restore has to write before the kernel clocks
\* go off: the control registers of the PLLs that were on at the save, then
\* for the resume the multiplexers, the enable registers, the plain
\* registers (which hold the MCU clock tree) and the secure gates, and for
\* the stop path the MCU source and divider
RestoredBefore(writes, resume, secure) ==
    /\ "PLLON" \in soc_stop_ctx.pll3cr => "RCC_PLL3CR" \in Range(writes)
    /\ "PLLON" \in soc_stop_ctx.pll4cr => "RCC_PLL4CR" \in Range(writes)
    /\ IF resume
       THEN /\ { "restore_mux_cfg", "restore_sc_cfg", "restore_regular_cfg" }
                   \subseteq Range(writes)
            /\ (secure /\ \E i \in GateIdx : gate_ref(i).secure # N_S)
                   => "sync_gates" \in Range(writes)
       ELSE { "RCC_MSSCKSELR", "RCC_MCUDIVR" } \subseteq Range(writes)

\* C31: in both low power paths the kernel clocks of the running
\* oscillators are turned on by the save step, and a kernel clock is turned
\* off only by the last register write of the matching restore step, after
\* PLL3/PLL4, the multiplexers, the peripheral enables, the MCU clock tree
\* and the secure gates were restored; the restore leaves them all off.
C31_KernelClocksAroundLowPower ==
    /\ [][SaveStep
             => /\ \A b \in { 0, 4, 8 } :
                      b \in rcc_ocenr' => (b + 1) \in rcc_ocenr'
                /\ rcc_ocenr \subseteq rcc_ocenr'
                /\ Head(lp_writes') = "RCC_OCENSETR"]_vars
    /\ [][(rcc_ocenr' \ rcc_ocenr) # {} => SaveStep]_vars
    /\ [][(rcc_ocenr \ rcc_ocenr') # {}
             => /\ RestoreCompletes
                /\ lp_writes'[Len(lp_writes')] = "RCC_OCENCLRR"
                /\ "RCC_OCENCLRR" \notin Range(SubSeq(lp_writes', 1,
                                                     Len(lp_writes') - 1))
                /\ RestoredBefore(SubSeq(lp_writes', 1, Len(lp_writes') - 1),
                                  ev'.op = "resume" /\ ev.op # "resume",
                                  rcc_secure)]_vars
    /\ [][RestoreCompletes
             => /\ rcc_ocenr' \cap ker_mask = {}
                /\ lp_writes'[Len(lp_writes')] = "RCC_OCENCLRR"]_vars
    /\ []("RCC_OCENCLRR" \in Range(lp_writes)
             => /\ lp_writes[Len(lp_writes)] = "RCC_OCENCLRR"
                /\ rcc_ocenr \cap ker_mask = {})

\* a resume that restarted both PLLs, synchronised the secure gates and then
\* switched the kernel clocks off, CSI still running
C31_Witness ==
    /\ ev.op = "resume"
    /\ ~suspended
    /\ rcc_secure
    /\ lp_writes = << "RCC_PLL4CR", "RCC_PLL3CR", "RCC_PLL3CR", "RCC_PLL4CR",
                      "restore_mux_cfg", "restore_sc_cfg",
                      "restore_regular_cfg", "sync_gates", "RCC_OCENCLRR" >>
    /\ rcc_ocenr = { 0, 4 }

\* the stop path restored both PLLs and the MCU clock tree, then switched
\* the kernel clocks off
StopRestoreEndsWithKernelClocksOff ==
    /\ stop_ev.op = "restore"
    /\ stop_ev.ret = "0"
    /\ lp_writes = << "RCC_PLL4CR", "RCC_PLL3CR", "RCC_PLL3CR", "RCC_PLL4CR",
                      "RCC_MSSCKSELR", "RCC_MCUDIVR", "RCC_OCENCLRR" >>
    /\ rcc_ocenr = { 0, 8 }

\* between the save and the end of the restore the kernel clocks run
KernelClocksOnWhileSuspended ==
    /\ suspended
    /\ ev.op = "wakeup"
    /\ rcc_ocenr = { 0, 1, 4, 5, 8, 9 }


(***************************************************************************)
(* C32: what a valid settings record holds                                 *)
(***************************************************************************)
\* slot i was filled from the device tree
SlotFromDt(settings, i) ==
    settings.freq[i] # 0

\* slot i is the first slot of its frequency
FirstOfItsFrequency(settings, i) ==
    opp_slot_lookup(settings, settings.freq[i]) = i

\* C32: whenever valid_id is PLL1_SETTINGS_VALID_ID every slot filled from
\* the device tree holds a computed configuration (PLLCFG_O not 0); valid_id
\* is written only by stm32mp1_clk_compute_all_pll1_settings returning 0,
\* after every slot was computed or captured, never after a failed one.
C32_ValidTableIsComplete ==
    /\ [](stm32mp1_clk_pll1_settings_are_valid(pll1_settings)
             => \A i \in OppSlots :
                    SlotFromDt(pll1_settings, i) => pll1_settings.cfg[i].O # 0)
    /\ [][pll1_settings'.valid_id # pll1_settings.valid_id
             => /\ lp_ev'.op = "compute_all"
                /\ lp_ev'.ret = "0"
                /\ stm32mp1_clk_pll1_settings_are_valid(pll1_settings')]_vars

\* the second half of C32 alone, and the first half for the slots that are
\* the first of their frequency
ValidOnlyByComputeAll ==
    /\ [][pll1_settings'.valid_id # pll1_settings.valid_id
             => /\ lp_ev'.op = "compute_all"
                /\ lp_ev'.ret = "0"
                /\ stm32mp1_clk_pll1_settings_are_valid(pll1_settings')]_vars
    /\ [](stm32mp1_clk_pll1_settings_are_valid(pll1_settings)
             => \A i \in OppSlots :
                    (SlotFromDt(pll1_settings, i)
                        /\ FirstOfItsFrequency(pll1_settings, i))
                        => pll1_settings.cfg[i].O # 0)
    /\ [](lp_ev.op = "compute_all" /\ lp_ev.ret = "-1"
             => ~stm32mp1_clk_pll1_settings_are_valid(pll1_settings))

\* a valid record whose second slot repeats the frequency of the first and
\* was left without a configuration
DuplicateSlotLeftEmpty ==
    /\ stm32mp1_clk_pll1_settings_are_valid(pll1_settings)
    /\ pll1_settings.freq[0] = 800000
    /\ pll1_settings.freq[1] = 800000
    /\ pll1_settings.cfg[0].O # 0
    /\ pll1_settings.cfg[1] = NoCfg

\* the computation failed on a slot and left the record invalid
FailedComputeLeavesInvalid ==
    /\ lp_ev.op = "compute_all"
    /\ lp_ev.ret = "-1"
    /\ pll1_settings.valid_id = 0
    /\ \E i \in OppSlots : SlotFromDt(pll1_settings, i)


(***************************************************************************)
(* C33: the CPU rate after a successful stm32mp1_set_opp_khz               *)
(***************************************************************************)
\* the call that just returned wrote the dividers or the fractional part
\* of PLL1, in place or after a stop
Pll1Reprogrammed ==
    \/ opp_hist.stop_path
    \/ WritesTo(opp_ev, Pll1ConfigRegisters)

\* stm32mp1_set_opp_khz(f), f not the recorded operating point, returned 0
SetOppSucceeded ==
    /\ opp_ev.op = "set_opp"
    /\ opp_ev.tried
    /\ opp_ev.ret = "0"

\* C33: after set_opp(f) returns success for f different from the previous
\* operating point, the rate of the CPU clock read from the registers,
\* rounded to kHz, is f; when PLL1 was reprogrammed for f, in place or
\* after a stop, the CPU mux selects the undivided PLL1 P output.
C33_CpuRunsAtRequestedOpp ==
    SetOppSucceeded
        => /\ CpuRateKhz = opp_ev.freq
           /\ current_opp_khz = opp_ev.freq
           /\ Pll1Reprogrammed => mpckselr.src = RCC_MPCKSELR_PLL

\* the parts of C33 that hold: a call that wrote no PLL1 register leaves
\* the CPU at f, and a call that stopped PLL1 leaves the CPU mux on the
\* undivided PLL1 P output
FastPathReachesOppAndStopPathUndivided ==
    SetOppSucceeded
        => /\ current_opp_khz = opp_ev.freq
           /\ ~Pll1Reprogrammed => CpuRateKhz = opp_ev.freq
           /\ opp_hist.stop_path => mpckselr.src = RCC_MPCKSELR_PLL

\* set_opp(325000) returned success after a stop of PLL1, for a slot that
\* was captured at the probe while the CPU ran at half the PLL1 P rate: the
\* CPU runs at 650000 kHz
CapturedSlotIgnoresDivider ==
    /\ SetOppSucceeded
    /\ opp_ev.freq = 325000
    /\ current_opp_khz = 325000
    /\ opp_hist.stop_path
    /\ mpckselr.src = RCC_MPCKSELR_PLL
    /\ CpuRateKhz = 650000

\* set_opp(651000) returned success after writing the fractional part in
\* place while the CPU mux selects PLL1 P through the MPU divider: the CPU
\* runs at 325500 kHz
InPlaceWithStaleDivider ==
    /\ SetOppSucceeded
    /\ opp_ev.freq = 651000
    /\ current_opp_khz = 651000
    /\ ~opp_hist.stop_path
    /\ mpckselr.src = RCC_MPCKSELR_PLL_MPUDIV
    /\ mpckdivr.mpudiv = 1
    /\ CpuRateKhz = 325500

\* set_opp(800000) returned success after a stop of PLL1
StopPathReachesOpp ==
    /\ SetOppSucceeded
    /\ opp_ev.freq = 800000
    /\ opp_hist.stop_path
    /\ CpuRateKhz = 800000


(***************************************************************************)
(* C34: range of the fractional value the search stores                    *)
(***************************************************************************)
\* C34: every fractional value the search stores is in 0..8191, for every
\* input and target frequency, so that shifted into RCC_PLLNFRACR it sets
\* no bit outside the FRACV field, in particular not FRACLE.
C34_FracFitsField ==
    pll1_search.pc # "idle"
        => /\ pll1_search.cfg_frac >= 0
           /\ pll1_search.cfg_frac <= FRAC_MAX - 1
           /\ (pll1_search.cfg_frac * (2 ^ RCC_PLLNFRACR_FRACV_SHIFT))
                  < RCC_PLLNFRACR_FRACLE

\* what holds: the stored value is in 0..8192
FracAtMostFracMax ==
    pll1_search.pc # "idle"
        => /\ pll1_search.cfg_frac >= 0
           /\ pll1_search.cfg_frac <= FRAC_MAX

\* the search for 630857 kHz from 64 MHz returned DIVM 6, DIVN 67, DIVP 0
\* with a fractional value of 8192, which shifted by 3 is the FRACLE bit
SearchStoresFracMax ==
    /\ pll1_search.pc = "done"
    /\ pll1_search.ret = "0"
    /\ pll1_search.input_freq = 64000000
    /\ pll1_search.output_freq = 630857000
    /\ pll1_search.cfg.M = 6 /\ pll1_search.cfg.N = 67 /\ pll1_search.cfg.P = 0
    /\ pll1_search.cfg_frac = FRAC_MAX
    /\ pll1_search.cfg_frac * (2 ^ RCC_PLLNFRACR_FRACV_SHIFT)
           = RCC_PLLNFRACR_FRACLE


(***************************************************************************)
(* C35: stm32mp1_set_opp_khz(0).  The device tree may list fewer operating *)
(* points than PLAT_MAX_OPP_NB; the slots left over keep frequency 0.      *)
(***************************************************************************)
\* device trees that list one operating point
SingleOppScenarios ==
    { \* the operating point the CPU runs at
      [Pll1At650MHz EXCEPT !.dt = << [freq |-> 650000, volt |-> 1200] >>],
      \* an operating point PLL1 has to be reprogrammed for
      [Pll1At650MHz EXCEPT !.dt = << [freq |-> 800000, volt |-> 1350] >>] }

InitOppAnyTable ==
    /\ GateBoot(TRUE, NoBits)
    /\ \E boot \in BootScenarios \cup SingleOppScenarios : OppBoot(boot)
    /\ RateBoot(RateRegsReset)
    /\ PmBoot

NextOppAnyRequest ==
    \/ \E freq_khz \in OppRequests \cup { 0 } : stm32mp1_set_opp_khz(freq_khz)
    \/ pll1_config_from_opp_khz
    \/ set_clkdiv_poll
    \/ set_clksrc_pll_poll
    \/ set_clksrc_hsi_poll
    \/ pll_stop_poll
    \/ pll_output_poll

SpecOppAnyRequest == InitOppAnyTable /\ [][NextOppAnyRequest]_vars

\* a call stm32mp1_set_opp_khz(0) made with a valid table and a non-zero
\* current operating point is in progress or has ended
SetOppZeroCase ==
    /\ opp_ev.op = "set_opp"
    /\ opp_ev.freq = 0
    /\ opp_hist.entry_opp # 0
    /\ stm32mp1_clk_pll1_settings_are_valid(pll1_settings)

\* C35: stm32mp1_set_opp_khz(0) with a valid table and a non-zero current
\* operating point returns failure without an arithmetic fault: the request
\* is never matched against a slot of frequency 0, so that the divider
\* computation never divides by zero.
C35_SetOppZeroFailsWithoutFault ==
    SetOppZeroCase
        => /\ opp_ev.ret \in { "-1", "pending" }
           /\ opp_pc # "fault"
           /\ (opp_pc = "config" /\ opp_try = "apply")
                  => opp_idx = PLAT_MAX_OPP_NB
           /\ current_opp_khz # 0

\* with every slot in use the request for 0 kHz finds no slot and the call
\* does not succeed
FullTableRejectsZero ==
    (SetOppZeroCase /\ \A i \in OppSlots : pll1_settings.freq[i] # 0)
        => /\ opp_pc # "fault"
           /\ opp_ev.ret # "0"
           /\ (opp_pc = "config" /\ opp_try = "apply")
                  => opp_idx = PLAT_MAX_OPP_NB
           /\ current_opp_khz = opp_hist.entry_opp

\* the request for 0 kHz is matched against the unused slot and
\* stm32mp1_get_mpu_div divides by it
ZeroMatchesUnusedSlot ==
    /\ SetOppZeroCase
    /\ opp_pc = "config"
    /\ opp_try = "apply"
    /\ opp_req = 0
    /\ opp_idx = 1
    /\ pll1_settings.freq[1] = 0

ZeroRequestFaults ==
    /\ SetOppZeroCase
    /\ opp_pc = "fault"
    /\ opp_ev.ret = "fault"


(***************************************************************************)
(* Remote processor service (remoteproc.pta).  Each command is one action; *)
(* pt_ok says whether param_types is the exp_pt of the command.            *)
(***************************************************************************)
\* the loop of da_to_pa from region i on: [res, pa]
RECURSIVE da_to_pa_from(_, _, _)
da_to_pa_from(da, size, i) ==
    IF i > Len(rproc_ta_mp1_m4_mems)
    THEN [res |-> "TEE_ERROR_ACCESS_DENIED", pa |-> << 0, 0 >>]
    ELSE LET mem == rproc_ta_mp1_m4_mems[i] IN
         IF /\ WLeq(mem.da, da)
            /\ WLeq(Add32(da, size), Add32(mem.da, mem.size))
         THEN [res |-> "TEE_SUCCESS",
               pa |-> Add32(Sub32(da, mem.da), mem.pa)]
         ELSE da_to_pa_from(da, size, i + 1)

da_to_pa(da, size) ==
    da_to_pa_from(da, size, 1)

\* the bytes [pa, pa + size) and the bytes [start, start + len) have a byte
\* in common; addresses past the 32 bits of a pointer wrap to 0
RangeMeets(pa, size, start, len) ==
    LET end == WAdd(pa, size)
        meets(s) == ~WLeq(end, s) /\ ~WLeq(WAdd(s, len), pa)
    IN  /\ size # << 0, 0 >>
        /\ (meets(start) \/ meets(WAdd(start, << HalfWord, 0 >>)))

\* every byte of [start, start + len) is in [pa, pa + size)
RangeCovers(pa, size, start, len) ==
    LET end == WAdd(pa, size)
        covers(s) == WLeq(pa, s) /\ WLeq(WAdd(s, len), end)
    IN  covers(start) \/ covers(WAdd(start, << HalfWord, 0 >>))

\* what memcpy or memset over [pa, pa + size) writes: the banks it meets and
\* "outside" when a byte of it is in no declared region
Written(pa, size) ==
    { rproc_ta_mp1_m4_rams[i].etzpc_id : i \in
        { j \in RamBanks : RangeMeets(pa, size, rproc_ta_mp1_m4_rams[j].pa,
                                      rproc_ta_mp1_m4_rams[j].size) } }
    \cup (IF /\ size # << 0, 0 >>
             /\ ~\E i \in 1..Len(rproc_ta_mp1_m4_mems) :
                    /\ WLeq(rproc_ta_mp1_m4_mems[i].pa, pa)
                    /\ WLeq(WAdd(pa, size),
                            WAdd(rproc_ta_mp1_m4_mems[i].pa,
                                 rproc_ta_mp1_m4_mems[i].size))
          THEN { "outside" } ELSE {})

\* the banks after [pa, pa + size) is filled with zero (zero) or with other
\* bytes
RamFilled(ram, pa, size, zero) ==
    [id \in EtzpcIds |->
        LET bank == CHOOSE r \in { rproc_ta_mp1_m4_rams[i] : i \in RamBanks } :
                        r.etzpc_id = id
        IN  IF ~RangeMeets(pa, size, bank.pa, bank.size) THEN ram[id]
            ELSE IF ~zero THEN "data"
            ELSE IF RangeCovers(pa, size, bank.pa, bank.size) THEN "zero"
            ELSE ram[id]]

\* the parameter types and the firmware identifier are the expected ones
WellFormed(pt_ok, fw_id) ==
    pt_ok /\ fw_id = STM32_M4_FW_ID

\* a command that returns res before it wrote anything
rproc_returns(cmd, wellformed, res) ==
    /\ rproc_ev' = RprocLabel(cmd, wellformed, res, << 0, 0 >>, << 0, 0 >>,
                              << 0, 0 >>,
                              {}, << >>)
    /\ UNCHANGED << rproc_ta_state, etzpc_decprot, mcu_ram, rcc_mp_gcr >>

RprocFrame ==
    /\ UNCHANGED << gateVars, oppVars, rateVars >>
    /\ UNCHANGED << backup_clock_sc_cfg, suspended, lp_data, lp_ev,
                    pll1_search, soc_stop_ctx, stop_pc, stop_ev, rcc_ocenr,
                    lp_writes >>
    /\ UNCHANGED << rcc_mp_cier, rcc_mp_cifr, svc_ev, pwrVars >>

rproc_pta_capabilities(pt_ok) ==
    /\ RprocFrame
    /\ rproc_returns("capabilities", pt_ok,
           IF pt_ok THEN "TEE_SUCCESS" ELSE "TEE_ERROR_BAD_PARAMETERS")

\* hash_size is params[3].memref.size, 0 for a null buffer; digest_ok is the
\* outcome of hash_sha256_check
rproc_pta_load_segment(pt_ok, hash_size, fw_id, da, size, digest_ok) ==
    /\ RprocFrame
    /\ IF ~pt_ok
       THEN rproc_returns("load_segment", WellFormed(pt_ok, fw_id)
                             /\ hash_size = TEE_SHA256_HASH_SIZE,
                         "TEE_ERROR_BAD_PARAMETERS")
       ELSE IF hash_size # TEE_SHA256_HASH_SIZE
       THEN rproc_returns("load_segment", WellFormed(pt_ok, fw_id)
                             /\ hash_size = TEE_SHA256_HASH_SIZE,
                         "TEE_ERROR_BAD_PARAMETERS")
       ELSE IF fw_id # STM32_M4_FW_ID
       THEN rproc_returns("load_segment", WellFormed(pt_ok, fw_id)
                             /\ hash_size = TEE_SHA256_HASH_SIZE,
                         "TEE_ERROR_NOT_SUPPORTED")
       ELSE IF rproc_ta_state # "REMOTEPROC_OFF"
       THEN rproc_returns("load_segment", WellFormed(pt_ok, fw_id)
                             /\ hash_size = TEE_SHA256_HASH_SIZE,
                         "TEE_ERROR_BAD_STATE")
       ELSE LET conv == da_to_pa(da, size) IN
            IF conv.res # "TEE_SUCCESS"
            THEN /\ rproc_ev' = RprocLabel("load_segment", TRUE, conv.res, da, size,
                                           << 0, 0 >>, {}, << >>)
                 /\ UNCHANGED << rproc_ta_state, etzpc_decprot, mcu_ram,
                                 rcc_mp_gcr >>
            ELSE /\ mcu_ram' = IF digest_ok
                               THEN RamFilled(mcu_ram, conv.pa, size, FALSE)
                               ELSE RamFilled(mcu_ram, conv.pa, size, TRUE)
                 /\ rproc_ev' = RprocLabel("load_segment", TRUE,
                                    IF digest_ok THEN "TEE_SUCCESS"
                                                 ELSE "TEE_ERROR_SECURITY",
                                    da, size, conv.pa,
                                    Written(conv.pa, size), << >>)
                 /\ UNCHANGED << rproc_ta_state, etzpc_decprot, rcc_mp_gcr >>

rproc_pta_set_memory(pt_ok, fw_id, da, size, value) ==
    /\ RprocFrame
    /\ IF ~pt_ok
       THEN rproc_returns("set_memory", WellFormed(pt_ok, fw_id),
                         "TEE_ERROR_BAD_PARAMETERS")
       ELSE IF fw_id # STM32_M4_FW_ID
       THEN rproc_returns("set_memory", WellFormed(pt_ok, fw_id),
                         "TEE_ERROR_NOT_SUPPORTED")
       ELSE IF rproc_ta_state # "REMOTEPROC_OFF"
       THEN rproc_returns("set_memory", WellFormed(pt_ok, fw_id),
                         "TEE_ERROR_BAD_STATE")
       ELSE LET conv == da_to_pa(da, size) IN
            IF conv.res # "TEE_SUCCESS"
            THEN /\ rproc_ev' = RprocLabel("set_memory", TRUE, conv.res, da, size,
                                           << 0, 0 >>, {}, << >>)
                 /\ UNCHANGED << rproc_ta_state, etzpc_decprot, mcu_ram,
                                 rcc_mp_gcr >>
            ELSE /\ mcu_ram' = RamFilled(mcu_ram, conv.pa, size, value = 0)
                 /\ rproc_ev' = RprocLabel("set_memory", TRUE, "TEE_SUCCESS", da,
                                           size, conv.pa,
                                           Written(conv.pa, size), << >>)
                 /\ UNCHANGED << rproc_ta_state, etzpc_decprot, rcc_mp_gcr >>

\* msb is params[1].value.b || params[2].value.b
rproc_pta_da_to_pa(pt_ok, fw_id, msb, da, size) ==
    /\ RprocFrame
    /\ IF ~pt_ok
       THEN rproc_returns("da_to_pa", WellFormed(pt_ok, fw_id),
                         "TEE_ERROR_BAD_PARAMETERS")
       ELSE IF fw_id # STM32_M4_FW_ID
       THEN rproc_returns("da_to_pa", WellFormed(pt_ok, fw_id),
                         "TEE_ERROR_NOT_SUPPORTED")
       ELSE IF msb
       THEN rproc_returns("da_to_pa", WellFormed(pt_ok, fw_id),
                         "TEE_ERROR_BAD_PARAMETERS")
       ELSE /\ rproc_ev' = RprocLabel("da_to_pa", TRUE, da_to_pa(da, size).res, da,
                                      size, da_to_pa(da, size).pa, {}, << >>)
            /\ UNCHANGED << rproc_ta_state, etzpc_decprot, mcu_ram,
                            rcc_mp_gcr >>

\* variant: start does not look at the state
rproc_pta_start_in_any_state(pt_ok, fw_id) ==
    /\ RprocFrame
    /\ IF ~pt_ok
       THEN rproc_returns("start", WellFormed(pt_ok, fw_id),
                         "TEE_ERROR_BAD_PARAMETERS")
       ELSE IF fw_id # STM32_M4_FW_ID
       THEN rproc_returns("start", WellFormed(pt_ok, fw_id),
                         "TEE_ERROR_NOT_SUPPORTED")
       ELSE /\ etzpc_decprot' = rproc_pta_mem_protect(FALSE)
            /\ rcc_mp_gcr' = (rcc_mp_gcr \cup { RCC_MP_GCR_BOOT_MCU })
                                 \ { RCC_MP_GCR_BOOT_MCU }
            /\ rproc_ta_state' = "REMOTEPROC_ON"
            /\ rproc_ev' = RprocLabel("start", TRUE, "TEE_SUCCESS", << 0, 0 >>,
                                      << 0, 0 >>, << 0, 0 >>, {},
                                      << "set", "clr" >>)
            /\ UNCHANGED mcu_ram

rproc_pta_start(pt_ok, fw_id) ==
    /\ RprocFrame
    /\ IF ~pt_ok
       THEN rproc_returns("start", WellFormed(pt_ok, fw_id),
                         "TEE_ERROR_BAD_PARAMETERS")
       ELSE IF fw_id # STM32_M4_FW_ID
       THEN rproc_returns("start", WellFormed(pt_ok, fw_id),
                         "TEE_ERROR_NOT_SUPPORTED")
       ELSE IF rproc_ta_state # "REMOTEPROC_OFF"
       THEN rproc_returns("start", WellFormed(pt_ok, fw_id),
                         "TEE_ERROR_BAD_STATE")
       ELSE \* clk_enable(CK_MCU): CK_MCU is always on, nothing is written
            /\ etzpc_decprot' = rproc_pta_mem_protect(FALSE)
            /\ rcc_mp_gcr' = (rcc_mp_gcr \cup { RCC_MP_GCR_BOOT_MCU })
                                 \ { RCC_MP_GCR_BOOT_MCU }
            /\ rproc_ta_state' = "REMOTEPROC_ON"
            /\ rproc_ev' = RprocLabel("start", TRUE, "TEE_SUCCESS", << 0, 0 >>,
                                      << 0, 0 >>, << 0, 0 >>, {},
                                      << "set", "clr" >>)
            /\ UNCHANGED mcu_ram

\* the banks rproc_ta_mp1_m4_rams[] declares MCU isolated
IsolatedBanks ==
    { rproc_ta_mp1_m4_rams[i].etzpc_id : i \in
        { j \in RamBanks :
            rproc_ta_mp1_m4_rams[j].attr = "ETZPC_DECPROT_MCU_ISOLATION" } }

\* variant: the banks are left as the firmware left them
stop_wipes_none(ram) ==
    ram

\* the memset loop of rproc_pta_stop
stop_wipes(ram) ==
    [id \in EtzpcIds |->
        IF id \in IsolatedBanks THEN "zero"
        ELSE ram[id]]

rproc_pta_stop(pt_ok, fw_id) ==
    /\ RprocFrame
    /\ IF ~pt_ok
       THEN rproc_returns("stop", WellFormed(pt_ok, fw_id),
                         "TEE_ERROR_BAD_PARAMETERS")
       ELSE IF fw_id # STM32_M4_FW_ID
       THEN rproc_returns("stop", WellFormed(pt_ok, fw_id),
                         "TEE_ERROR_NOT_SUPPORTED")
       ELSE IF rproc_ta_state # "REMOTEPROC_ON"
       THEN rproc_returns("stop", WellFormed(pt_ok, fw_id),
                         "TEE_ERROR_BAD_STATE")
       ELSE \* stm32_reset_set(MCU_R) and clk_disable(CK_MCU) write neither
            \* of the registers of the model
            /\ rcc_mp_gcr' = rcc_mp_gcr \ { RCC_MP_GCR_BOOT_MCU }
            /\ etzpc_decprot' = rproc_pta_mem_protect(TRUE)
            /\ mcu_ram' = stop_wipes(mcu_ram)
            /\ rproc_ta_state' = "REMOTEPROC_OFF"
            /\ rproc_ev' = RprocLabel("stop", TRUE, "TEE_SUCCESS", << 0, 0 >>,
                               << 0, 0 >>, << 0, 0 >>,
                               IsolatedBanks,
                               << "clr" >>)

\* keyinfo: "null", "size" (RPROC_PTA_GET_KEYINFO_SIZE differs from the
\* memref size), "algo" (not RSASSA_PKCS1_V1_5_SHA256) or "ok"; verified is
\* what rproc_pta_verify_rsa_signature returns
rproc_pta_verify_digest(pt_ok, fw_id, keyinfo, verified) ==
    /\ RprocFrame
    /\ rproc_returns("verify_digest", WellFormed(pt_ok, fw_id),
           IF ~pt_ok THEN "TEE_ERROR_BAD_PARAMETERS"
           ELSE IF fw_id # STM32_M4_FW_ID THEN "TEE_ERROR_NOT_SUPPORTED"
           ELSE IF rproc_ta_state # "REMOTEPROC_OFF" THEN "TEE_ERROR_BAD_STATE"
           ELSE IF keyinfo \in { "null", "size" }
           THEN "TEE_ERROR_BAD_PARAMETERS"
           ELSE IF keyinfo = "algo" THEN "TEE_ERROR_NOT_SUPPORTED"
           ELSE verified)

\* the firmware of the coprocessor writes into a bank it has access to
mcu_firmware_writes(id) ==
    /\ RprocFrame
    /\ rproc_ta_state = "REMOTEPROC_ON"
    /\ etzpc_decprot[id] \in { "ETZPC_DECPROT_MCU_ISOLATION",
                               "ETZPC_DECPROT_NS_RW" }
    /\ mcu_ram' = [mcu_ram EXCEPT ![id] = "data"]
    /\ rproc_ev' = RprocLabel("firmware", TRUE, "none", << 0, 0 >>, << 0, 0 >>,
                              << 0, 0 >>, {}, << >>)
    /\ UNCHANGED << rproc_ta_state, etzpc_decprot, rcc_mp_gcr >>

\* device address and size of the requests: the bounds of the regions, a
\* range across the end of a region, and ranges whose end passes 2^32
RangeRequests ==
    { << << 4096, 0 >>, << 0, 16 >> >>,          \* 0x10000000, 0x10
      << << 4096, 0 >>, << 6, 0 >> >>,           \* 0x10000000, 0x60000
      << << 4096, 0 >>, << 6, 1 >> >>,           \* 0x10000000, 0x60001
      << << 4096, 0 >>, << 0, 0 >> >>,           \* 0x10000000, 0
      << << 4098, 0 >>, << 2, 0 >> >>,           \* 0x10020000, 0x20000
      << << 4102, 0 >>, << 0, 0 >> >>,           \* 0x10060000, 0
      << << 12292, 0 >>, << 1, 0 >> >>,          \* 0x30040000, 0x10000
      << << 12293, 65535 >>, << 0, 2 >> >>,      \* 0x3005FFFF, 2
      << << 0, 0 >>, << 1, 0 >> >>,              \* 0, 0x10000
      << << 0, 32768 >>, << 1, 0 >> >>,          \* 0x8000, 0x10000
      << << 8192, 0 >>, << 0, 16 >> >>,          \* 0x20000000, 0x10
      << << 4096, 0 >>, << 65535, 65535 >> >>,   \* 0x10000000, 0xFFFFFFFF
      << << 65535, 65520 >>, << 0, 32 >> >>,     \* 0xFFFFFFF0, 0x20
      << << 12288, 0 >>, << 53248, 0 >> >> }     \* 0x30000000, 0xD0000000

FwIds == { STM32_M4_FW_ID, 1 }

InitRproc ==
    /\ GateBoot(TRUE, NoBits)
    /\ OppBoot(Pll1At650MHz)
    /\ RateBoot(RateRegsReset)
    /\ PmDriverBoot({ 0, 8 })
    /\ \E dirty \in SUBSET { "STM32MP1_ETZPC_SRAM1_ID",
                            "STM32MP1_ETZPC_RETRAM_ID" },
          gcr \in { {}, { RCC_MP_GCR_BOOT_MCU } } :
          RprocBoot([id \in EtzpcIds |-> IF id \in dirty THEN "data"
                                                         ELSE "zero"], gcr)
    /\ RccSvcBoot({}, {})
    /\ PwrBoot(FALSE, STM32_PM_SHUTDOWN, { STM32_PM_CSTOP_ALLOW_STOP })

NextRproc ==
    \/ \E pt_ok \in BOOLEAN : rproc_pta_capabilities(pt_ok)
    \/ \E pt_ok \in BOOLEAN, hash_size \in { 0, TEE_SHA256_HASH_SIZE },
          fw_id \in FwIds, r \in RangeRequests, digest_ok \in BOOLEAN :
          rproc_pta_load_segment(pt_ok, hash_size, fw_id, r[1], r[2],
                                 digest_ok)
    \/ \E pt_ok \in BOOLEAN, fw_id \in FwIds, r \in RangeRequests,
          value \in { 0, 165 } :
          rproc_pta_set_memory(pt_ok, fw_id, r[1], r[2], value)
    \/ \E pt_ok \in BOOLEAN, fw_id \in FwIds, msb \in BOOLEAN,
          r \in RangeRequests :
          rproc_pta_da_to_pa(pt_ok, fw_id, msb, r[1], r[2])
    \/ \E pt_ok \in BOOLEAN, fw_id \in FwIds : rproc_pta_start(pt_ok, fw_id)
    \/ \E pt_ok \in BOOLEAN, fw_id \in FwIds : rproc_pta_stop(pt_ok, fw_id)
    \/ \E pt_ok \in BOOLEAN, fw_id \in FwIds,
          keyinfo \in { "null", "size", "algo", "ok" },
          verified \in { "TEE_SUCCESS", "TEE_ERROR_SIGNATURE_INVALID" } :
          rproc_pta_verify_digest(pt_ok, fw_id, keyinfo, verified)
    \/ \E id \in EtzpcIds : mcu_firmware_writes(id)

SpecRproc == InitRproc /\ [][NextRproc]_vars


(***************************************************************************)
(* C36: the state machine of the remote processor service                  *)
(***************************************************************************)
RprocRejections ==
    { "TEE_ERROR_BAD_STATE", "TEE_ERROR_BAD_PARAMETERS",
      "TEE_ERROR_NOT_SUPPORTED" }

\* a step of a command of the service
RprocCommandStep(cmds) ==
    /\ rproc_ev'.cmd \in cmds
    /\ << rprocVars, rcc_mp_gcr >>' # << rprocVars, rcc_mp_gcr >>

\* C36: the state of the service is OFF or ON and OFF after the
\* initialisation; it goes from OFF to ON by a start that returns success
\* and by nothing else, from ON to OFF by a stop that returns success and by
\* nothing else; with the expected parameter types and firmware identifier,
\* load_segment, set_memory, verify_digest and start return BAD_STATE in ON
\* and stop returns BAD_STATE in OFF; a command that returns BAD_STATE,
\* BAD_PARAMETERS or NOT_SUPPORTED leaves the state, the MCU RAM, the ETZPC
\* attributes and RCC_MP_GCR as they were.
C36_RprocStateMachine ==
    /\ [](rproc_ta_state \in { "REMOTEPROC_OFF", "REMOTEPROC_ON" })
    /\ [](rproc_ev.cmd = "init" => rproc_ta_state = "REMOTEPROC_OFF")
    /\ [][rproc_ta_state' # rproc_ta_state
             => /\ rproc_ev'.res = "TEE_SUCCESS"
                /\ rproc_ev'.cmd =
                       (IF rproc_ta_state = "REMOTEPROC_OFF" THEN "start"
                                                             ELSE "stop")]_vars
    /\ [][(RprocCommandStep({ "start" }) /\ rproc_ev'.res = "TEE_SUCCESS")
             => /\ rproc_ta_state = "REMOTEPROC_OFF"
                /\ rproc_ta_state' = "REMOTEPROC_ON"]_vars
    /\ [][(RprocCommandStep({ "stop" }) /\ rproc_ev'.res = "TEE_SUCCESS")
             => /\ rproc_ta_state = "REMOTEPROC_ON"
                /\ rproc_ta_state' = "REMOTEPROC_OFF"]_vars
    /\ [][(/\ RprocCommandStep({ "load_segment", "set_memory",
                                 "verify_digest", "start" })
           /\ rproc_ev'.wellformed
           /\ rproc_ta_state = "REMOTEPROC_ON")
             => rproc_ev'.res = "TEE_ERROR_BAD_STATE"]_vars
    /\ [][(/\ RprocCommandStep({ "stop" })
           /\ rproc_ev'.wellformed
           /\ rproc_ta_state = "REMOTEPROC_OFF")
             => rproc_ev'.res = "TEE_ERROR_BAD_STATE"]_vars
    /\ [][rproc_ev'.res \in RprocRejections
             => UNCHANGED << rproc_ta_state, mcu_ram, etzpc_decprot,
                             rcc_mp_gcr >>]_vars

\* a start was refused while the firmware runs and has written its RAM
C36_Witness ==
    /\ rproc_ta_state = "REMOTEPROC_ON"
    /\ rproc_ev.cmd = "start"
    /\ rproc_ev.wellformed
    /\ rproc_ev.res = "TEE_ERROR_BAD_STATE"
    /\ mcu_ram["STM32MP1_ETZPC_SRAM2_ID"] = "data"

(***************************************************************************)
(* C37: protection and content of the MCU RAM                              *)
(***************************************************************************)
\* C37: while the service is OFF every bank declared MCU isolated is secure
\* read/write, while it is ON every such bank is MCU isolated; after a stop
\* that returned success every such bank holds zeros only; load_segment and
\* set_memory have written only while the state is OFF.
C37_RamProtectionFollowsState ==
    /\ rproc_ta_state = "REMOTEPROC_OFF"
           => \A id \in IsolatedBanks :
                  etzpc_decprot[id] = "ETZPC_DECPROT_S_RW"
    /\ rproc_ta_state = "REMOTEPROC_ON"
           => \A id \in IsolatedBanks :
                  etzpc_decprot[id] = "ETZPC_DECPROT_MCU_ISOLATION"
    /\ (rproc_ev.cmd = "stop" /\ rproc_ev.res = "TEE_SUCCESS")
           => \A id \in IsolatedBanks : mcu_ram[id] = "zero"
    /\ (rproc_ev.cmd \in { "load_segment", "set_memory" }
            /\ rproc_ev.written # {})
           => rproc_ta_state = "REMOTEPROC_OFF"

\* the banks that are not MCU isolated keep the attribute of the table
SharedBanksKeepAttribute ==
    \A i \in RamBanks :
        rproc_ta_mp1_m4_rams[i].attr # "ETZPC_DECPROT_MCU_ISOLATION"
            => etzpc_decprot[rproc_ta_mp1_m4_rams[i].etzpc_id]
                   = rproc_ta_mp1_m4_rams[i].attr

\* the stop wiped the banks; the bank shared with the non-secure world
\* keeps what the firmware wrote
C37_Witness ==
    /\ rproc_ev.cmd = "stop"
    /\ rproc_ev.res = "TEE_SUCCESS"
    /\ rproc_ta_state = "REMOTEPROC_OFF"
    /\ rproc_ev.written = IsolatedBanks
    /\ mcu_ram["STM32MP1_ETZPC_SRAM3_ID"] = "data"
    /\ \A id \in IsolatedBanks : etzpc_decprot[id] = "ETZPC_DECPROT_S_RW"

(***************************************************************************)
(* C38: da_to_pa                                                           *)
(***************************************************************************)
\* [da, da + size) lies inside region mem, the end taken without truncation
InsideRegion(da, size, mem) ==
    /\ WLeq(mem.da, da)
    /\ WLeq(WAdd(da, size), WAdd(mem.da, mem.size))

\* the command of rproc_ev has called da_to_pa
Converted ==
    /\ rproc_ev.cmd \in { "da_to_pa", "load_segment", "set_memory" }
    /\ rproc_ev.res \notin RprocRejections

\* C38: da_to_pa(da, size) returns success only when [da, da + size), with
\* da + size not truncated to the address width, lies inside one declared
\* region, and then pa = da - region.da + region.pa; it returns
\* ACCESS_DENIED for every other (da, size); load_segment and set_memory
\* write no byte outside the declared regions.
C38_DaToPaInsideOneRegion ==
    Converted
        => LET inside == { i \in 1..Len(rproc_ta_mp1_m4_mems) :
                             InsideRegion(rproc_ev.da, rproc_ev.size,
                                          rproc_ta_mp1_m4_mems[i]) }
           IN  /\ rproc_ev.res # "TEE_ERROR_ACCESS_DENIED"
                      => \E i \in inside :
                             rproc_ev.pa =
                                 WAdd(WSub(rproc_ev.da,
                                           rproc_ta_mp1_m4_mems[i].da),
                                      rproc_ta_mp1_m4_mems[i].pa)
               /\ rproc_ev.res = "TEE_ERROR_ACCESS_DENIED" => inside = {}
               /\ "outside" \notin rproc_ev.written

\* the same for the requests whose end da + size stays below 2^32
DaToPaWithoutWrap ==
    (Converted /\ WAdd(rproc_ev.da, rproc_ev.size)[1] < HalfWord)
        => LET inside == { i \in 1..Len(rproc_ta_mp1_m4_mems) :
                             InsideRegion(rproc_ev.da, rproc_ev.size,
                                          rproc_ta_mp1_m4_mems[i]) }
           IN  /\ rproc_ev.res # "TEE_ERROR_ACCESS_DENIED"
                      => \E i \in inside :
                             rproc_ev.pa =
                                 WAdd(WSub(rproc_ev.da,
                                           rproc_ta_mp1_m4_mems[i].da),
                                      rproc_ta_mp1_m4_mems[i].pa)
               /\ rproc_ev.res = "TEE_ERROR_ACCESS_DENIED" => inside = {}
               /\ "outside" \notin rproc_ev.written

\* set_memory(0x10000000, 0xFFFFFFFF) is accepted: the end wraps to
\* 0x0FFFFFFF, and memset runs from 0x30000000 over 0xFFFFFFFF bytes
WrappedSizeAccepted ==
    /\ rproc_ev.cmd = "set_memory"
    /\ rproc_ev.res = "TEE_SUCCESS"
    /\ rproc_ev.da = << 4096, 0 >>
    /\ rproc_ev.size = << 65535, 65535 >>
    /\ rproc_ev.pa = MCUSRAM_BASE
    /\ "outside" \in rproc_ev.written

\* da_to_pa(0xFFFFFFF0, 0x20) is matched against the region at device
\* address 0x10000000 and gives 0x1FFFFFF0, an address of no region
WrappedAddressAccepted ==
    /\ rproc_ev.cmd = "da_to_pa"
    /\ rproc_ev.res = "TEE_SUCCESS"
    /\ rproc_ev.da = << 65535, 65520 >>
    /\ rproc_ev.size = << 0, 32 >>
    /\ rproc_ev.pa = << 8191, 65520 >>


(***************************************************************************)
(* RCC register service (rcc_scv_handler).  A register and a value are the *)
(* sets of the bits that read 1.                                           *)
(***************************************************************************)
RCC_BASE == 1342177280        \* 0x50000000
RCC_OFFSET_MASK == 4095       \* GENMASK_32(11, 0)
RCC_MP_GCR == 268             \* 0x10C
RCC_MP_CIER == 1044           \* 0x414
RCC_MP_CIFR == 1048           \* 0x418
RCC_TZCR == 0

STM32_SIP_SVC_REG_WRITE == 1
STM32_SIP_SVC_REG_SET == 2
STM32_SIP_SVC_REG_CLEAR == 3

\* variant: the value is written whole
io_mask32_unmasked(reg, value, mask) ==
    value

\* io_mask32_stm32shregs: (reg & ~mask) | (value & mask)
io_mask32(reg, value, mask) ==
    (reg \ mask) \cup (value \cap mask)

\* access_allowed_mask: the register after the request; no allowed register
\* is a clear register
access_allowed_mask(reg, request, value, allowed_mask) ==
    IF allowed_mask = {} THEN reg
    ELSE IF request = STM32_SIP_SVC_REG_WRITE
    THEN io_mask32(reg, value, allowed_mask)
    ELSE IF request = STM32_SIP_SVC_REG_SET
    THEN reg \cup (value \cap allowed_mask)
    ELSE IF request = STM32_SIP_SVC_REG_CLEAR
    THEN reg \ (value \cap allowed_mask)
    ELSE reg

\* the switch of raw_allowed_access_request: the mask, {} for the default
allowed_mask_of(offset) ==
    IF offset \in { RCC_MP_CIER, RCC_MP_CIFR } THEN { RCC_MP_CIFR_WKUPF }
    ELSE IF offset = RCC_MP_GCR THEN { RCC_MP_GCR_BOOT_MCU }
    ELSE {}

\* offset & ~RCC_OFFSET_MASK
UpperBits(x2) ==
    x2 - (x2 % (RCC_OFFSET_MASK + 1))

SvcLabel(request, x2, value, ret, writes) ==
    [request |-> request, x2 |-> x2, value |-> value, ret |-> ret,
     writes |-> writes]

rcc_scv_handler(x1, x2, x3) ==
    /\ UNCHANGED << gateVars, oppVars, rateVars >>
    /\ UNCHANGED << backup_clock_sc_cfg, suspended, lp_data, lp_ev,
                    pll1_search, soc_stop_ctx, stop_pc, stop_ev, rcc_ocenr,
                    lp_writes >>
    /\ UNCHANGED << rprocVars, pwrVars >>
    /\ IF UpperBits(x2) # 0 /\ UpperBits(x2) # RCC_BASE
       THEN /\ svc_ev' = SvcLabel(x1, x2, x3, "STM32_SIP_SVC_INVALID_PARAMS",
                                  << >>)
            /\ UNCHANGED << rcc_mp_gcr, rcc_mp_cier, rcc_mp_cifr >>
       ELSE LET offset == x2 % (RCC_OFFSET_MASK + 1)
                mask == allowed_mask_of(offset)
                written == x1 \in { STM32_SIP_SVC_REG_WRITE,
                                    STM32_SIP_SVC_REG_SET,
                                    STM32_SIP_SVC_REG_CLEAR }
            IN
            IF mask = {}
            THEN /\ svc_ev' = SvcLabel(x1, x2, x3,
                                       "STM32_SIP_SVC_INVALID_PARAMS", << >>)
                 /\ UNCHANGED << rcc_mp_gcr, rcc_mp_cier, rcc_mp_cifr >>
            ELSE /\ rcc_mp_gcr' = IF offset = RCC_MP_GCR
                                  THEN access_allowed_mask(rcc_mp_gcr, x1, x3,
                                                           mask)
                                  ELSE rcc_mp_gcr
                 /\ rcc_mp_cier' = IF offset = RCC_MP_CIER
                                   THEN access_allowed_mask(rcc_mp_cier, x1,
                                                            x3, mask)
                                   ELSE rcc_mp_cier
                 /\ rcc_mp_cifr' = IF offset = RCC_MP_CIFR
                                   THEN access_allowed_mask(rcc_mp_cifr, x1,
                                                            x3, mask)
                                   ELSE rcc_mp_cifr
                 /\ svc_ev' = SvcLabel(x1, x2, x3, "STM32_SIP_SVC_OK",
                                       IF written THEN << offset >>
                                                  ELSE << >>)

\* requests of the non-secure world: write, set, clear and the request
\* numbers next to them
SvcRequests ==
    (STM32_SIP_SVC_REG_WRITE - 1)..(STM32_SIP_SVC_REG_CLEAR + 1)

\* the allowed registers and RCC_TZCR, as offsets and as physical addresses,
\* an address of another peripheral and an address past the RCC registers
SvcAddresses ==
    { RCC_MP_GCR, RCC_MP_CIER, RCC_MP_CIFR, RCC_TZCR,
      RCC_BASE + RCC_MP_GCR, RCC_BASE + RCC_MP_CIFR,
      (RCC_BASE \div 5) * 4 + RCC_MP_GCR,
      RCC_BASE + RCC_OFFSET_MASK + 1 + RCC_MP_GCR }

Bits32 == 0..31

SvcValues ==
    { {}, { RCC_MP_GCR_BOOT_MCU, RCC_MP_CIFR_WKUPF }, { 1, 19, 21 }, Bits32 }

\* what the three registers hold when the non-secure world starts
SvcRegisterResets ==
    { [gcr |-> {}, cier |-> {}, cifr |-> {}],
      [gcr |-> { 1, 20, 21 }, cier |-> { 0, 20 }, cifr |-> { 1, 19 }],
      [gcr |-> { 5 }, cier |-> { 19, 21 }, cifr |-> { 0, 20, 31 }] }

InitRccSvc ==
    /\ GateBoot(TRUE, NoBits)
    /\ OppBoot(Pll1At650MHz)
    /\ RateBoot(RateRegsReset)
    /\ PmDriverBoot({ 0, 8 })
    /\ \E regs \in SvcRegisterResets :
          /\ RprocBoot([id \in EtzpcIds |-> "zero"], regs.gcr)
          /\ RccSvcBoot(regs.cier, regs.cifr)
    /\ PwrBoot(FALSE, STM32_PM_SHUTDOWN, { STM32_PM_CSTOP_ALLOW_STOP })

NextRccSvc ==
    \E x1 \in SvcRequests, x2 \in SvcAddresses, x3 \in SvcValues :
        rcc_scv_handler(x1, x2, x3)

SpecRccSvc == InitRccSvc /\ [][NextRccSvc]_vars

(***************************************************************************)
(* C39: what the RCC register service can change                           *)
(***************************************************************************)
\* the bits in which two values of a register differ
BitsChanged(before, after) ==
    (before \ after) \cup (after \ before)

\* C39: whatever the request, the address and the value, the only bits the
\* service changes are RCC_MP_CIFR_WKUPF of RCC_MP_CIER and RCC_MP_CIFR and
\* RCC_MP_GCR_BOOT_MCU of RCC_MP_GCR; an offset that is none of the three
\* returns INVALID_PARAMS and writes no register; an address with non-zero
\* upper bits that are not those of RCC_BASE is rejected; the bits outside
\* the mask of an allowed register keep their value.
C39_OnlyAllowedBitsChange ==
    [][/\ BitsChanged(rcc_mp_gcr, rcc_mp_gcr') \subseteq { RCC_MP_GCR_BOOT_MCU }
       /\ BitsChanged(rcc_mp_cier, rcc_mp_cier') \subseteq { RCC_MP_CIFR_WKUPF }
       /\ BitsChanged(rcc_mp_cifr, rcc_mp_cifr') \subseteq { RCC_MP_CIFR_WKUPF }
       /\ (svc_ev'.x2 % (RCC_OFFSET_MASK + 1))
              \notin { RCC_MP_GCR, RCC_MP_CIER, RCC_MP_CIFR }
            => /\ svc_ev'.ret = "STM32_SIP_SVC_INVALID_PARAMS"
               /\ svc_ev'.writes = << >>
       /\ (UpperBits(svc_ev'.x2) \notin { 0, RCC_BASE })
            => svc_ev'.ret = "STM32_SIP_SVC_INVALID_PARAMS"
       /\ svc_ev'.ret = "STM32_SIP_SVC_INVALID_PARAMS"
            => /\ svc_ev'.writes = << >>
               /\ UNCHANGED << rcc_mp_gcr, rcc_mp_cier, rcc_mp_cifr >>
       /\ \A r \in Range(svc_ev'.writes) :
              r \in { RCC_MP_GCR, RCC_MP_CIER, RCC_MP_CIFR }]_vars

\* a write of all ones to RCC_MP_CIFR by its physical address has set the
\* wake-up flag and left the other bits of the three registers as they were
C39_Witness ==
    /\ svc_ev.request = STM32_SIP_SVC_REG_WRITE
    /\ svc_ev.x2 = RCC_BASE + RCC_MP_CIFR
    /\ svc_ev.value = Bits32
    /\ svc_ev.ret = "STM32_SIP_SVC_OK"
    /\ rcc_mp_cifr = { 1, 19, RCC_MP_CIFR_WKUPF }
    /\ rcc_mp_gcr = { 1, 20, 21 }


(***************************************************************************)
(* Low power configuration (power_config.c)                                *)
(***************************************************************************)
\* the loop of get_pm_domain_state, with id and res as they stand
RECURSIVE pm_domain_scan(_, _, _, _)
pm_domain_scan(dom, mode, id, res) ==
    IF res /\ id > mode
    THEN pm_domain_scan(dom, mode, id - 1, res /\ dom[id - 1])
    ELSE res

get_pm_domain_state(dom, mode) ==
    pm_domain_scan(dom, mode, STM32MP1_PD_MAX_PM_DOMAIN, TRUE)

\* variant: every mode counts as supported
is_supported_mode_any(supported, soc_mode) ==
    TRUE

is_supported_mode(supported, soc_mode) ==
    supported[soc_mode] = 1

\* the four tests of stm32mp1_get_lp_soc_mode, one after the other
lp_soc_mode_from(deepest, supported, dom) ==
    LET m4 == IF /\ deepest = STM32_PM_CSTOP_ALLOW_STANDBY_DDR_SR
                 /\ \/ ~get_pm_domain_state(dom, STM32MP1_PD_CORE_RET)
                    \/ ~is_supported_mode(supported, deepest)
              THEN STM32_PM_CSTOP_ALLOW_LPLV_STOP ELSE deepest
        m3 == IF /\ m4 = STM32_PM_CSTOP_ALLOW_LPLV_STOP
                 /\ \/ ~get_pm_domain_state(dom, STM32MP1_PD_CORE)
                    \/ ~is_supported_mode(supported, m4)
              THEN STM32_PM_CSTOP_ALLOW_LP_STOP ELSE m4
        m2 == IF /\ m3 = STM32_PM_CSTOP_ALLOW_LP_STOP
                 /\ ~is_supported_mode(supported, m3)
              THEN STM32_PM_CSTOP_ALLOW_STOP ELSE m3
    IN  IF /\ m2 = STM32_PM_CSTOP_ALLOW_STOP
           /\ ~is_supported_mode(supported, m2)
        THEN STM32_PM_CSLEEP_RUN ELSE m2

PwrFrame ==
    /\ UNCHANGED << gateVars, oppVars, rateVars >>
    /\ UNCHANGED << backup_clock_sc_cfg, suspended, lp_data, lp_ev,
                    pll1_search, soc_stop_ctx, stop_pc, stop_ev, rcc_ocenr,
                    lp_writes >>
    /\ UNCHANGED << rprocVars, rccSvcVars, cfg_stm32_cryp >>

stm32mp1_get_lp_soc_mode(psci_mode) ==
    /\ PwrFrame
    /\ pwr_ev' = PwrLabel("get_lp_soc_mode", psci_mode, 0,
                     IF psci_mode = PSCI_MODE_SYSTEM_OFF
                     THEN system_off_mode
                     ELSE lp_soc_mode_from(deepest_suspend_mode,
                                           stm32mp1_supported_soc_modes,
                                           stm32mp1_pm_dom))
    /\ UNCHANGED << deepest_suspend_mode, system_off_mode,
                    stm32mp1_supported_soc_modes, stm32mp1_pm_dom >>

stm32mp1_set_lp_deepest_soc_mode(psci_mode, soc_mode) ==
    /\ PwrFrame
    /\ UNCHANGED << stm32mp1_supported_soc_modes, stm32mp1_pm_dom >>
    /\ IF soc_mode >= STM32_PM_MAX_SOC_MODE
       THEN /\ pwr_ev' = PwrLabel("set_lp_deepest_soc_mode", psci_mode,
                                  soc_mode, -1)
            /\ UNCHANGED << deepest_suspend_mode, system_off_mode >>
       ELSE /\ deepest_suspend_mode' =
                   IF psci_mode # PSCI_MODE_SYSTEM_SUSPEND
                   THEN deepest_suspend_mode
                   ELSE IF /\ ~cfg_stm32_cryp
                           /\ soc_mode = STM32_PM_CSTOP_ALLOW_STANDBY_DDR_SR
                   THEN STM32_PM_CSTOP_ALLOW_LPLV_STOP
                   ELSE soc_mode
            /\ system_off_mode' = IF psci_mode = PSCI_MODE_SYSTEM_OFF
                                  THEN soc_mode ELSE system_off_mode
            /\ pwr_ev' = PwrLabel("set_lp_deepest_soc_mode", psci_mode,
                                  soc_mode, 0)

stm32mp1_set_pm_domain_state(domain, status) ==
    /\ PwrFrame
    /\ UNCHANGED << deepest_suspend_mode, system_off_mode,
                    stm32mp1_supported_soc_modes >>
    /\ IF domain >= STM32MP1_PD_MAX_PM_DOMAIN
       THEN /\ pwr_ev' = PwrLabel("set_pm_domain_state", domain, 0, -1)
            /\ UNCHANGED stm32mp1_pm_dom
       ELSE /\ stm32mp1_pm_dom' = [stm32mp1_pm_dom EXCEPT ![domain] = status]
            /\ pwr_ev' = PwrLabel("set_pm_domain_state", domain, 0, 0)

\* system_suspend_supported_soc_modes of the device trees
SupportedModeLists ==
    { {},
      { STM32_PM_CSTOP_ALLOW_STOP },
      { STM32_PM_CSTOP_ALLOW_LP_STOP, STM32_PM_CSTOP_ALLOW_STANDBY_DDR_SR },
      { STM32_PM_CSTOP_ALLOW_STOP, STM32_PM_CSTOP_ALLOW_LPLV_STOP },
      { STM32_PM_CSLEEP_RUN, STM32_PM_CSTOP_ALLOW_STOP,
        STM32_PM_CSTOP_ALLOW_LP_STOP, STM32_PM_CSTOP_ALLOW_LPLV_STOP,
        STM32_PM_CSTOP_ALLOW_STANDBY_DDR_SR } }

InitPwr ==
    /\ GateBoot(TRUE, NoBits)
    /\ OppBoot(Pll1At650MHz)
    /\ RateBoot(RateRegsReset)
    /\ PmDriverBoot({ 0, 8 })
    /\ RprocBoot([id \in EtzpcIds |-> "zero"], {})
    /\ RccSvcBoot({}, {})
    /\ \E cryp \in BOOLEAN,
          off_mode \in { STM32_PM_CSTOP_ALLOW_STANDBY_DDR_OFF,
                         STM32_PM_SHUTDOWN },
          supported \in SupportedModeLists :
          PwrBoot(cryp, off_mode, supported)

NextPwr ==
    \/ \E psci_mode \in PSCI_MODE_SYSTEM_SUSPEND..PSCI_MODE_SYSTEM_OFF :
          stm32mp1_get_lp_soc_mode(psci_mode)
    \/ \E psci_mode \in PSCI_MODE_SYSTEM_SUSPEND..(PSCI_MODE_SYSTEM_OFF + 1),
          soc_mode \in 0..(STM32_PM_MAX_SOC_MODE + 1) :
          stm32mp1_set_lp_deepest_soc_mode(psci_mode, soc_mode)
    \/ \E domain \in 0..STM32MP1_PD_MAX_PM_DOMAIN, status \in BOOLEAN :
          stm32mp1_set_pm_domain_state(domain, status)

SpecPwr == InitPwr /\ [][NextPwr]_vars

(***************************************************************************)
(* C40: the mode stm32mp1_get_lp_soc_mode returns                          *)
(***************************************************************************)
\* C40: for a system suspend request stm32mp1_get_lp_soc_mode returns a mode
\* that is not greater than deepest_suspend_mode; a returned STOP, LP_STOP,
\* LPLV_STOP or STANDBY_DDR_SR is marked supported; STANDBY_DDR_SR is
\* returned only with the domains CORE_RET and CORE on, LPLV_STOP only with
\* the domain CORE on; for a system off request it returns system_off_mode;
\* stm32mp1_set_lp_deepest_soc_mode with a mode at or above
\* STM32_PM_MAX_SOC_MODE returns an error and changes nothing.
C40_LpSocModeWithinLimits ==
    /\ []((/\ pwr_ev.op = "get_lp_soc_mode"
           /\ pwr_ev.psci_mode = PSCI_MODE_SYSTEM_SUSPEND)
            => /\ pwr_ev.ret <= deepest_suspend_mode
               /\ pwr_ev.ret \in STM32_PM_CSTOP_ALLOW_STOP
                                    ..STM32_PM_CSTOP_ALLOW_STANDBY_DDR_SR
                    => stm32mp1_supported_soc_modes[pwr_ev.ret] = 1
               /\ pwr_ev.ret = STM32_PM_CSTOP_ALLOW_STANDBY_DDR_SR
                    => /\ stm32mp1_pm_dom[STM32MP1_PD_CORE_RET]
                       /\ stm32mp1_pm_dom[STM32MP1_PD_CORE]
               /\ pwr_ev.ret = STM32_PM_CSTOP_ALLOW_LPLV_STOP
                    => stm32mp1_pm_dom[STM32MP1_PD_CORE])
    /\ []((/\ pwr_ev.op = "get_lp_soc_mode"
           /\ pwr_ev.psci_mode = PSCI_MODE_SYSTEM_OFF)
            => pwr_ev.ret = system_off_mode)
    /\ [][(/\ pwr_ev'.op = "set_lp_deepest_soc_mode"
           /\ pwr_ev'.soc_mode >= STM32_PM_MAX_SOC_MODE)
            => /\ pwr_ev'.ret = -1
               /\ UNCHANGED << deepest_suspend_mode, system_off_mode,
                               stm32mp1_supported_soc_modes,
                               stm32mp1_pm_dom >>]_vars

\* STANDBY_DDR_SR is the deepest mode, the domain CORE_RET is off and
\* LPLV_STOP is not supported: LP_STOP is returned
C40_Witness ==
    /\ pwr_ev.op = "get_lp_soc_mode"
    /\ pwr_ev.psci_mode = PSCI_MODE_SYSTEM_SUSPEND
    /\ deepest_suspend_mode = STM32_PM_CSTOP_ALLOW_STANDBY_DDR_SR
    /\ stm32mp1_supported_soc_modes[STM32_PM_CSTOP_ALLOW_STANDBY_DDR_SR] = 1
    /\ ~stm32mp1_pm_dom[STM32MP1_PD_CORE_RET]
    /\ stm32mp1_pm_dom[STM32MP1_PD_CORE]
    /\ stm32mp1_supported_soc_modes[STM32_PM_CSTOP_ALLOW_LPLV_STOP] = 0
    /\ pwr_ev.ret = STM32_PM_CSTOP_ALLOW_LP_STOP

\* the deepest mode itself is returned when its domains are on
StandbyReturned ==
    /\ pwr_ev.op = "get_lp_soc_mode"
    /\ pwr_ev.psci_mode = PSCI_MODE_SYSTEM_SUSPEND
    /\ pwr_ev.ret = STM32_PM_CSTOP_ALLOW_STANDBY_DDR_SR

====
